---- MODULE Spec2Model ----
(***************************************************************************)
(* A model of sandoc's HWP 5.x reader (src/src/sandoc/parser.py): the TLV  *)
(* record parser, the paragraph-text decoder, the body-text pass and       *)
(* parse_hwp; of the style heuristic (style.py) and of the HWPX builder,    *)
(* editor and validator (hwpx_engine.py).  Byte buffers are sequences of   *)
(* integers 0..255; Python's 0-based offsets are kept, so the byte at      *)
(* offset k of data is data[k+1].  Text is a sequence of code points.      *)
(***************************************************************************)
EXTENDS Integers, Sequences, FiniteSets, TLC

VARIABLES
    pc,        \* position of the operation under study
    data,      \* the byte buffer given to _parse_records / _decode_para_text
    src,       \* the records a buffer was encoded from (none for a raw buffer)
    records,   \* _parse_records: the returned list
    i,         \* _decode_para_text: the read offset
    chars,     \* _decode_para_text: the code points collected so far
    file,      \* parse_hwp: the file at path (fixed during a parse)
    opened,    \* parse_hwp: the streams opened so far, in order
    last_read, \* parse_hwp: what the last _decompress_stream call returned
    section_idx, \* parse_hwp: section_idx
    result,    \* parse_hwp: the HwpParseResult under construction
    raised,    \* the exception that left the operation, "" when none
    profile,   \* extract_style_profile: the StyleProfile returned
    builder,   \* HwpxBuilder: its style and its _sections
    disk,      \* the files at the paths the HWPX functions are given
    report,    \* validate_hwpx: the dictionary returned
    edit,      \* edit_hwpx_text: its arguments and the path it returned
    access,    \* StyleMirror: the last accessor call and what it returned
    run        \* run_pipeline: its arguments, the project files, its result

recVars == <<data, src, records>>
textVars == <<i, chars>>
parseVars == <<file, opened, last_read, section_idx, result>>
outVars == <<profile, builder, disk, report, edit, access, run>>
vars == <<pc, recVars, textVars, parseVars, raised, outVars>>

\* ---------------------------------------------------------------- bounds
MaxRecords == 2
MaxChunks == 4
MaxTextChunks == 3
MaxSection == 3
MaxBodyRecords == 3

\* ------------------------------------------------------- byte primitives
Byte == 0..255

\* data[a:b] of Python for 0 <= a: the bytes at offsets a..b-1 that exist.
Slice(d, a, b) ==
    LET e == IF b > Len(d) THEN Len(d) ELSE b
    IN  IF a >= e THEN <<>> ELSE SubSeq(d, a + 1, e)

\* struct.unpack_from(fmt, d, off) raises struct.error unless the buffer
\* holds n bytes at off.
UnpackRaises(d, off, n) == off + n > Len(d)

\* struct.unpack_from("<H", d, off)[0]
UnpackH(d, off) == d[off + 1] + 256 * d[off + 2]

\* struct.unpack_from("<I", d, off)[0].  TLC's integers are 32-bit signed:
\* a value of 2^31 or more is clamped to 2^31 - 1, which is larger than the
\* length of any buffer, so every comparison against a length is unchanged.
UnpackI(d, off) ==
    IF d[off + 4] >= 128 THEN 2147483647
    ELSE d[off + 1] + 256 * d[off + 2] + 65536 * d[off + 3] + 16777216 * d[off + 4]

\* ------------------------------------------------------- _parse_records
\* The three bit fields of the header word at pos, taken from its bytes
\* b0..b3 (word = b0 + b1<<8 + b2<<16 + b3<<24):
\*   word & 0x3FF, (word >> 10) & 0x3FF, (word >> 20) & 0xFFF.
HeaderTagId(d, pos) == (d[pos + 1] + 256 * d[pos + 2]) % 1024
HeaderLevel(d, pos) == ((d[pos + 2] \div 4) + 64 * d[pos + 3]) % 1024
HeaderSize(d, pos) == ((d[pos + 3] \div 16) + 16 * d[pos + 4]) % 4096

SIZE_EXTENDED == 4095

HwpRecord(tag_id, level, size, rec_data, offset) ==
    [tag_id |-> tag_id, level |-> level, size |-> size, data |-> rec_data,
     offset |-> offset]

\* if size == 0xFFF: the next four bytes hold the real size
IsExtendedLiteral(size0) == size0 > SIZE_EXTENDED
IsExtended(size0) == size0 = SIZE_EXTENDED

\* while pos + 4 <= len(data)
RecordsLoopGuard(d, pos) == pos + 4 <= Len(d)

\* if pos + 4 > len(data): break   (the extension word is missing)
ExtensionUnchecked(d, pos) == FALSE
ExtensionMissing(d, pos) == pos + 4 > Len(d)

\* if pos + size > len(data)       (the payload is cut short)
PayloadTruncated(d, pos, size) == size > Len(d) - pos

\* One pass through the body of the while loop, entered with the guard
\* true.  brk: the loop was left by break; err: struct.error was raised.
ParseRecordsBody(d, pos0, recs) ==
    IF UnpackRaises(d, pos0, 4)
    THEN [pos |-> pos0, records |-> recs, brk |-> TRUE, err |-> TRUE]
    ELSE
    LET tag_id == HeaderTagId(d, pos0)
        level == HeaderLevel(d, pos0)
        size0 == HeaderSize(d, pos0)
        pos1 == pos0 + 4
        ext == IsExtended(size0)
    IN  IF ext /\ ExtensionMissing(d, pos1)
        THEN [pos |-> pos1, records |-> recs, brk |-> TRUE, err |-> FALSE]
        ELSE IF ext /\ UnpackRaises(d, pos1, 4)
        THEN [pos |-> pos1, records |-> recs, brk |-> TRUE, err |-> TRUE]
        ELSE
        LET size == IF ext THEN UnpackI(d, pos1) ELSE size0
            pos == IF ext THEN pos1 + 4 ELSE pos1
        IN  IF PayloadTruncated(d, pos, size)
            THEN LET rec_data == Slice(d, pos, Len(d))
                 IN  [pos |-> pos,
                      records |-> Append(recs,
                          HwpRecord(tag_id, level, Len(rec_data), rec_data, pos)),
                      brk |-> TRUE, err |-> FALSE]
            ELSE [pos |-> pos + size,
                  records |-> Append(recs,
                      HwpRecord(tag_id, level, size, Slice(d, pos, pos + size), pos)),
                  brk |-> FALSE, err |-> FALSE]

RECURSIVE ParseRecordsFrom(_, _, _)
ParseRecordsFrom(d, pos, recs) ==
    IF ~RecordsLoopGuard(d, pos)
    THEN [records |-> recs, err |-> FALSE]
    ELSE LET s == ParseRecordsBody(d, pos, recs)
         IN  IF s.brk THEN [records |-> s.records, err |-> s.err]
             ELSE ParseRecordsFrom(d, s.pos, s.records)

\* _parse_records(data): the list returned, or err when it raises.
parse_records(d) == ParseRecordsFrom(d, 0, <<>>)

\* ---------------------------------------------------- _decode_para_text
InlineCtrlCharsShort == 1..7
HWP_INLINE_CTRL_CHARS == 1..8
HWP_CHAR_LINE_BREAK == 10
HWP_CHAR_PARA_END == 13
INLINE_CTRL_EXTRA == 14

\* while i + 1 < len(data)
DecodeLoopGuardLoose(d, off) == off < Len(d)
DecodeLoopGuard(d, off) == off + 1 < Len(d)

\* elif code < 0x0020 and code not in (0x0009, 0x000A, 0x000D)
IsOtherControl(code) == code < 32 /\ code \notin {9, 10, 13}

\* chr(code): a character is represented by its code point.
Chr(code) == code

\* One pass through the body of the while loop.  err: struct.error raised.
DecodeBody(d, i0, cs) ==
    IF UnpackRaises(d, i0, 2)
    THEN [i |-> i0, chars |-> cs, err |-> TRUE]
    ELSE
    LET code == UnpackH(d, i0)
        i1 == i0 + 2
    IN  IF code \in HWP_INLINE_CTRL_CHARS
        THEN [i |-> i1 + INLINE_CTRL_EXTRA, chars |-> cs, err |-> FALSE]
        ELSE IF code = HWP_CHAR_LINE_BREAK
        THEN [i |-> i1, chars |-> Append(cs, Chr(10)), err |-> FALSE]
        ELSE IF code = HWP_CHAR_PARA_END
        THEN [i |-> i1, chars |-> cs, err |-> FALSE]
        ELSE IF IsOtherControl(code)
        THEN [i |-> i1,
              chars |-> IF code = 9 THEN Append(cs, Chr(9)) ELSE cs,
              err |-> FALSE]
        ELSE [i |-> i1, chars |-> Append(cs, Chr(code)), err |-> FALSE]

RECURSIVE DecodeFrom(_, _, _)
DecodeFrom(d, off, cs) ==
    IF ~DecodeLoopGuard(d, off)
    THEN [text |-> cs, err |-> FALSE]
    ELSE LET s == DecodeBody(d, off, cs)
         IN  IF s.err THEN [text |-> s.chars, err |-> TRUE]
             ELSE DecodeFrom(d, s.i, s.chars)

\* _decode_para_text(data): the string returned, as its code points.
decode_para_text(d) == DecodeFrom(d, 0, <<>>)

\* ---------------------------------------------------- _decompress_stream
\* zlib.decompress(raw, -15) on a raw-deflate stream of stored blocks
\* (BTYPE 00) or of the reserved block type (BTYPE 11); streams whose first
\* block is Huffman-coded are not inputs of this model.  ok = FALSE stands
\* for zlib.error.  Bytes after the final block are ignored.
RECURSIVE InflateFrom(_, _, _)
InflateFrom(raw, p, out) ==
    IF p >= Len(raw) THEN [ok |-> FALSE, out |-> <<>>]
    ELSE
    LET bfinal == raw[p + 1] % 2
        btype == (raw[p + 1] \div 2) % 4
    IN  CASE btype = 3 -> [ok |-> FALSE, out |-> <<>>]
          [] btype = 0 ->
              IF p + 5 > Len(raw) THEN [ok |-> FALSE, out |-> <<>>]
              ELSE
              LET len == UnpackH(raw, p + 1)
                  nlen == UnpackH(raw, p + 3)
              IN  IF len + nlen # 65535 \/ p + 5 + len > Len(raw)
                  THEN [ok |-> FALSE, out |-> <<>>]
                  ELSE IF bfinal = 1
                  THEN [ok |-> TRUE, out |-> out \o Slice(raw, p + 5, p + 5 + len)]
                  ELSE InflateFrom(raw, p + 5 + len,
                                   out \o Slice(raw, p + 5, p + 5 + len))

Inflate(raw) == InflateFrom(raw, 0, <<>>)

\* _decompress_stream once the stream is read: the bytes returned, or err
\* when an exception leaves the function.
decompress_uncaught(raw, compressed) ==
    IF ~compressed THEN [bytes |-> raw, err |-> FALSE]
    ELSE LET r == Inflate(raw)
         IN  IF r.ok THEN [bytes |-> r.out, err |-> FALSE]
             ELSE [bytes |-> <<>>, err |-> TRUE]

decompress_stream(raw, compressed) ==
    IF ~compressed THEN [bytes |-> raw, err |-> FALSE]
    ELSE LET r == Inflate(raw)
         IN  IF r.ok THEN [bytes |-> r.out, err |-> FALSE]
             ELSE [bytes |-> raw, err |-> FALSE]

\* ------------------------------------------------------- _parse_page_def
\* Lengths are kept in tenths of a millimetre: round(x, 1) has one decimal.
HwpPageLayout ==
    [paper_width_mm |-> 2100, paper_height_mm |-> 2970,
     margin_top_mm |-> 100, margin_bottom_mm |-> 150,
     margin_left_mm |-> 200, margin_right_mm |-> 200,
     margin_header_mm |-> 150, margin_footer_mm |-> 100,
     margin_gutter_mm |-> 0]

\* round(v * HWPUNIT_TO_MM, 1) in tenths of a millimetre, HWPUNIT_TO_MM =
\* 1 / 7200 * 25.4.  An exact tie (v an odd multiple of 1800) is decided by
\* the binary floating-point product and is not an input of this model.
RoundMm(v) ==
    CASE (v * 254) % 7200 # 3600 -> (v * 254 + 3600) \div 7200

PAGE_DEF_MIN_LEN == 40

parse_page_def(d) ==
    IF Len(d) >= PAGE_DEF_MIN_LEN
    THEN [paper_width_mm |-> RoundMm(UnpackI(d, 0)),
          paper_height_mm |-> RoundMm(UnpackI(d, 4)),
          margin_left_mm |-> RoundMm(UnpackI(d, 8)),
          margin_right_mm |-> RoundMm(UnpackI(d, 12)),
          margin_top_mm |-> RoundMm(UnpackI(d, 16)),
          margin_bottom_mm |-> RoundMm(UnpackI(d, 20)),
          margin_header_mm |-> RoundMm(UnpackI(d, 24)),
          margin_footer_mm |-> RoundMm(UnpackI(d, 28)),
          margin_gutter_mm |-> RoundMm(UnpackI(d, 32))]
    ELSE HwpPageLayout

\* --------------------------------------------------- _parse_table_record
parse_table_record(d) ==
    IF Len(d) >= 8
    THEN [rows |-> UnpackH(d, 4), cols |-> UnpackH(d, 6)]
    ELSE [rows |-> 0, cols |-> 0]

\* ------------------------------------------------------- _finalize_table
HwpTable(rows, cols, table_index) ==
    [rows |-> rows, cols |-> cols, cells |-> <<>>, table_index |-> table_index]

\* idx = r * table.cols + c, for the 0-based row r and column c
CellIndexByRows(table, r, c) == r * table.rows + c
CellIndex(table, r, c) == r * table.cols + c

finalize_table(table, cell_texts) ==
    IF table.rows = 0 \/ table.cols = 0
    THEN [table EXCEPT !.cells = <<cell_texts>>]
    ELSE [table EXCEPT !.cells =
            [r \in 1..table.rows |->
                [c \in 1..table.cols |->
                    LET idx == CellIndex(table, r - 1, c - 1)
                    IN  IF idx < Len(cell_texts) THEN cell_texts[idx + 1] ELSE <<>>]]]

\* -------------------------------------------------- _extract_body_content
HWPTAG_PARA_TEXT == 67
HWPTAG_SEC_DEF == 73
HWPTAG_TABLE == 75

HwpParagraph(text, level) ==
    [text |-> text, char_shape_ids |-> <<>>, style_id |-> 0, level |-> level]

\* The locals of the pass together with the fields of result it writes.
\* current_table is <<>> for None and <<t>> for the table t.
BodyEntryFromZero(res) ==
    [paragraphs |-> res.paragraphs, tables |-> res.tables,
     page_layout |-> res.page_layout,
     table_index |-> 0,
     current_table |-> <<>>, cell_texts |-> <<>>, in_table |-> FALSE,
     err |-> FALSE]
BodyEntry(res) ==
    [paragraphs |-> res.paragraphs, tables |-> res.tables,
     page_layout |-> res.page_layout,
     table_index |-> Len(res.tables),
     current_table |-> <<>>, cell_texts |-> <<>>, in_table |-> FALSE,
     err |-> FALSE]

\* if current_table is not None: finalize it and append it to result.tables
CloseTable(st) ==
    IF st.current_table # <<>>
    THEN [st EXCEPT !.tables =
            Append(@, finalize_table(st.current_table[1], st.cell_texts))]
    ELSE st

\* A TABLE record opens a table when rows > 0 and cols > 0.
OpensTable(rc) == rc.rows > 0 /\ rc.cols > 0

\* result.page_layout = _parse_page_def(rec.data), whatever it was
SecDefLayoutFirstWins(layout, d) ==
    IF layout = HwpPageLayout THEN parse_page_def(d) ELSE layout
SecDefLayout(layout, d) == parse_page_def(d)

\* One pass through the body of the for loop, for the record rec.
BodyRecord(rec, st) ==
    IF rec.tag_id = HWPTAG_PARA_TEXT
    THEN LET t == decode_para_text(rec.data)
         IN  IF t.err THEN [st EXCEPT !.err = TRUE]
             ELSE IF t.text # <<>>
             THEN [st EXCEPT
                     !.paragraphs = Append(@, HwpParagraph(t.text, rec.level)),
                     !.cell_texts = IF st.in_table /\ st.current_table # <<>>
                                    THEN Append(@, t.text) ELSE @]
             ELSE st
    ELSE IF rec.tag_id = HWPTAG_TABLE
    THEN LET closed == IF st.current_table # <<>>
                       THEN [CloseTable(st) EXCEPT !.cell_texts = <<>>]
                       ELSE st
             rc == parse_table_record(rec.data)
         IN  IF OpensTable(rc)
             THEN [closed EXCEPT
                     !.current_table = <<HwpTable(rc.rows, rc.cols, closed.table_index)>>,
                     !.in_table = TRUE,
                     !.table_index = @ + 1]
             ELSE [closed EXCEPT !.current_table = <<>>, !.in_table = FALSE]
    ELSE IF rec.tag_id = HWPTAG_SEC_DEF
    THEN [st EXCEPT !.page_layout = SecDefLayout(@, rec.data)]
    ELSE st

RECURSIVE BodyLoop(_, _, _)
BodyLoop(recs, k, st) ==
    IF k > Len(recs) \/ st.err THEN st
    ELSE BodyLoop(recs, k + 1, BodyRecord(recs[k], st))

\* _extract_body_content(records, result): result as it is left.
extract_body_content(recs, res) ==
    LET st == BodyLoop(recs, 1, BodyEntry(res))
        end == IF st.err THEN st ELSE CloseTable(st)
    IN  [result |-> [res EXCEPT !.paragraphs = end.paragraphs,
                                   !.tables = end.tables,
                                   !.page_layout = end.page_layout],
         err |-> st.err]

\* ------------------------------------------------------- _extract_docinfo
HWPTAG_FACE_NAME == 19
HWPTAG_CHAR_SHAPE == 21
HWPTAG_STYLE == 26

\* bytes.decode("utf-16-le", errors="replace"): a trailing odd byte becomes
\* U+FFFD.  Surrogate code units are not inputs of this model.
Utf16Decode(d) ==
    [k \in 1..((Len(d) + 1) \div 2) |->
        IF 2 * k > Len(d) THEN 65533
        ELSE CASE UnpackH(d, 2 * k - 2) \notin 55296..57343 -> UnpackH(d, 2 * k - 2)]

\* str.rstrip("\x00")
RECURSIVE RStripNul(_)
RStripNul(t) ==
    IF t # <<>> /\ t[Len(t)] = 0 THEN RStripNul(SubSeq(t, 1, Len(t) - 1)) ELSE t

parse_face_name(d) ==
    IF Len(d) < 3 THEN <<>>
    ELSE LET name_len == UnpackH(d, 1)
         IN  RStripNul(Utf16Decode(Slice(d, 3, 3 + name_len * 2)))

HwpFontInfo(name) == [name |-> name, script_type |-> ""]

\* Font sizes are kept in tenths of a point: round(x, 1) has one decimal.
HwpCharShape ==
    [font_ids |-> <<>>, font_size_pt |-> 100, bold |-> FALSE, italic |-> FALSE,
     underline |-> FALSE, color_rgb |-> <<0, 0, 0>>]

\* round(v * HWPUNIT_TO_PT, 1) in tenths of a point, HWPUNIT_TO_PT = 1 / 100.
\* An exact tie (v ending in 5) is decided by the binary floating-point
\* product and is not an input of this model.
RoundPt(v) ==
    CASE v % 10 # 5 -> (v + 5) \div 10

CHAR_SHAPE_MIN_LEN == 42

parse_char_shape(d) ==
    IF Len(d) < CHAR_SHAPE_MIN_LEN THEN HwpCharShape
    ELSE
    [font_ids |-> [k \in 1..7 |-> UnpackH(d, (k - 1) * 2)],
     font_size_pt |-> IF Len(d) >= 46 THEN RoundPt(UnpackI(d, 42))
                      ELSE HwpCharShape.font_size_pt,
     italic |-> Len(d) >= 50 /\ d[47] % 2 = 1,
     bold |-> Len(d) >= 50 /\ (d[47] \div 2) % 2 = 1,
     underline |-> Len(d) >= 50 /\ (d[47] \div 4) % 2 = 1,
     color_rgb |-> IF Len(d) >= 64 /\ <<d[61], d[62], d[63], d[64]>> # <<255, 255, 255, 255>>
                   THEN <<d[61], d[62], d[63]>>
                   ELSE HwpCharShape.color_rgb]

\* rec.data.find(b"\x00\x00"): the first offset of two zero bytes, or -1
FindNulNul(d) ==
    LET hits == {k \in 0..(Len(d) - 2) : d[k + 1] = 0 /\ d[k + 2] = 0}
    IN  IF hits = {} THEN -1 ELSE CHOOSE k \in hits : \A j \in hits : k <= j

style_name(d) ==
    LET end == FindNulNul(d)
    IN  IF end >= 0
        THEN RStripNul(Utf16Decode(Slice(d, 0, end + (IF end % 2 = 0 THEN 1 ELSE 0))))
        ELSE RStripNul(Utf16Decode(d))

\* One pass through the body of the for loop, for the record rec.
DocInfoRecord(rec, res) ==
    IF rec.tag_id = HWPTAG_FACE_NAME
    THEN LET name == parse_face_name(rec.data)
         IN  IF name # <<>>
             THEN [res EXCEPT !.fonts = Append(@, HwpFontInfo(name))]
             ELSE res
    ELSE IF rec.tag_id = HWPTAG_CHAR_SHAPE
    THEN [res EXCEPT !.char_shapes = Append(@, parse_char_shape(rec.data))]
    ELSE IF rec.tag_id = HWPTAG_STYLE
    THEN [res EXCEPT !.styles = Append(@, [name |-> style_name(rec.data)])]
    ELSE res

RECURSIVE DocInfoLoop(_, _, _)
DocInfoLoop(recs, k, res) ==
    IF k > Len(recs) THEN res
    ELSE DocInfoLoop(recs, k + 1, DocInfoRecord(recs[k], res))

\* _extract_docinfo(records, result): result as it is left.
extract_docinfo(recs, res) == DocInfoLoop(recs, 1, res)

\* ------------------------------------------------------- _read_hwp_header
\* header_data[:32].split(b"\x00")[0].decode("ascii", errors="replace")
Signature(h) ==
    LET head == Slice(h, 0, 32)
        nuls == {k \in 1..Len(head) : head[k] = 0}
        n == IF nuls = {} THEN Len(head)
             ELSE (CHOOSE k \in nuls : \A j \in nuls : k <= j) - 1
    IN  [k \in 1..n |-> IF head[k] < 128 THEN head[k] ELSE 65533]

\* f"{major}.{minor}.{build}.{revision}" of the little-endian word at 32
VersionStringBigEndian(h) ==
    ToString(h[33]) \o "." \o ToString(h[34]) \o "." \o ToString(h[35])
        \o "." \o ToString(h[36])
VersionString(h) ==
    ToString(h[36]) \o "." \o ToString(h[35]) \o "." \o ToString(h[34])
        \o "." \o ToString(h[33])

EncryptedBitZero(h) == Len(h) >= 40 /\ h[37] % 2 = 1
EncryptedBit(h) == Len(h) >= 40 /\ (h[37] \div 2) % 2 = 1

read_hwp_header(h) ==
    [signature |-> Signature(h),
     version |-> IF Len(h) >= 36 THEN VersionString(h) ELSE "unknown",
     compressed |-> IF Len(h) >= 40 THEN h[37] % 2 = 1 ELSE TRUE,
     encrypted |-> EncryptedBit(h)]

\* HwpParseResult(file_path=...) as constructed
HwpParseResult ==
    [version |-> "", compressed |-> TRUE, encrypted |-> FALSE,
     paragraphs |-> <<>>, tables |-> <<>>, page_layout |-> HwpPageLayout,
     fonts |-> <<>>, char_shapes |-> <<>>, styles |-> <<>>, sections |-> <<>>]

\* No file is involved in the specifications of the single functions.
NoFile == [exists |-> FALSE, is_ole |-> FALSE, header |-> <<>>, streams |-> <<>>]

ParseIdle ==
    /\ file = NoFile
    /\ opened = <<>>
    /\ last_read = <<>>
    /\ section_idx = 0
    /\ result = HwpParseResult

\* Nothing extracted, built, written or validated yet.
OutputIdle ==
    /\ profile = <<>>
    /\ builder = <<>>
    /\ disk = <<>>
    /\ report = <<>>
    /\ edit = <<>>
    /\ access = <<>>
    /\ run = <<>>


\* ----------------------------------------- inputs of the record parser
SeqsUpTo(S, n) == UNION {[1..k -> S] : k \in 0..n}

RECURSIVE Flatten(_)
Flatten(ss) == IF ss = <<>> THEN <<>> ELSE Head(ss) \o Flatten(Tail(ss))

\* The wire form of one record: the header word tagId | level<<10 | size<<20
\* as four little-endian bytes, the 12-bit size field being 0xFFF followed
\* by the real size as four little-endian bytes when size >= 0xFFF.
HeaderBytes(tag_id, level, size12) ==
    << tag_id % 256,
       (tag_id \div 256) + 4 * (level % 64),
       (level \div 64) + 16 * (size12 % 16),
       size12 \div 16 >>

U32Bytes(n) ==
    << n % 256, (n \div 256) % 256, (n \div 65536) % 256, (n \div 16777216) % 256 >>

PayloadOf(r) ==
    [k \in 1..r.size |-> IF r.tag_id = 67 THEN (k + r.level) % 251 ELSE 255]

EncodeRecord(r) ==
    (IF r.size >= 4095
     THEN HeaderBytes(r.tag_id, r.level, 4095) \o U32Bytes(r.size)
     ELSE HeaderBytes(r.tag_id, r.level, r.size)) \o PayloadOf(r)

EncodeRecords(rs) == Flatten([k \in 1..Len(rs) |-> EncodeRecord(rs[k])])

\* Records to encode: extreme and mixed tag/level bit patterns, sizes on
\* both sides of the 0xFFF escape.
TagLevelPool == {<<0, 1023>>, <<1023, 0>>, <<67, 1>>}
SizePool == {0, 1, 4094, 4095, 4096}
RecordPool ==
    {[tag_id |-> tl[1], level |-> tl[2], size |-> sz] :
        tl \in TagLevelPool, sz \in SizePool}

\* Raw buffers: concatenations of header-like words, extension-like words
\* and stray bytes, so that every truncation point occurs.
ChunkPool ==
    { <<0, 0, 0, 0>>,           \* header: tag 0, size 0 / extension: size 0
      <<67, 4, 16, 0>>,         \* header: tag 67, level 1, size 1
      <<255, 255, 255, 255>>,   \* header: size field 0xFFF / extension: 2^32-1
      <<1, 0, 0, 0>>,           \* extension: size 1
      <<75, 0, 48, 0>>,         \* header: tag 75, size 3
      <<255>>, <<0, 16>> }

RecordInputs ==
    {[data |-> EncodeRecords(rs), src |-> [encoded |-> TRUE, recs |-> rs]] :
        rs \in SeqsUpTo(RecordPool, MaxRecords)}
    \cup
    {[data |-> Flatten(cs), src |-> [encoded |-> FALSE, recs |-> <<>>]] :
        cs \in SeqsUpTo(ChunkPool, MaxChunks)}

\* ------------------------------------- specification: the record parser
InitRecords ==
    /\ pc = "start"
    /\ raised = ""
    /\ records = <<>>
    /\ i = 0
    /\ chars = <<>>
    /\ ParseIdle
    /\ OutputIdle
    /\ \E input \in RecordInputs : data = input.data /\ src = input.src

ParseRecords ==
    /\ pc = "start"
    /\ LET r == parse_records(data)
       IN  /\ records' = r.records
           /\ raised' = IF r.err THEN "struct.error" ELSE ""
           /\ pc' = IF r.err THEN "raised" ELSE "done"
    /\ UNCHANGED <<data, src, textVars, parseVars, outVars>>

NextRecords == ParseRecords

SpecRecords == InitRecords /\ [][NextRecords]_vars

\* C1: a buffer encoded from a sequence of records decodes to exactly that
\* sequence of (tag_id, level, size, data), in order, a record of real size
\* 0xFFF included.
RecordRoundTrip ==
    (pc # "start" /\ src.encoded) =>
        /\ pc = "done"
        /\ Len(records) = Len(src.recs)
        /\ \A k \in 1..Len(records) :
              /\ records[k].tag_id = src.recs[k].tag_id
              /\ records[k].level = src.recs[k].level
              /\ records[k].size = src.recs[k].size
              /\ records[k].data = PayloadOf(src.recs[k])

RecordRoundTripWitness ==
    /\ pc = "done"
    /\ src.encoded
    /\ Len(records) = 2
    /\ records[1].size = 4095
    /\ records[1].level = 1023
    /\ records[2].size = 1

\* The size a header at offset h declares, and the offset of its payload.
\* Defined when the header (and its extension word, if any) is in the buffer.
DeclaredExtended(d, h) == HeaderSize(d, h) = 4095
DeclaredSize(d, h) == IF DeclaredExtended(d, h) THEN UnpackI(d, h + 4) ELSE HeaderSize(d, h)
PayloadOffset(d, h) == IF DeclaredExtended(d, h) THEN h + 8 ELSE h + 4
HeaderComplete(d, h) ==
    /\ h + 4 <= Len(d)
    /\ DeclaredExtended(d, h) => h + 8 <= Len(d)

\* Offset of the header of the k-th returned record: records are laid end to end.
HeaderOffsetOf(recs, k) == IF k = 1 THEN 0 ELSE recs[k - 1].offset + recs[k - 1].size

\* C2: _parse_records returns without raising for every buffer; a record
\* whose declared size exceeds the bytes left after its header is returned
\* last, with the remaining bytes as data; a 0xFFF header whose extension
\* word is cut off yields no record; every record has len(data) = size.
TruncationPolicy ==
    pc # "start" =>
        /\ pc = "done" /\ raised = ""
        /\ \A k \in 1..Len(records) :
              LET h == HeaderOffsetOf(records, k)
                  rec == records[k]
              IN  /\ HeaderComplete(data, h)
                  /\ rec.offset = PayloadOffset(data, h)
                  /\ Len(rec.data) = rec.size
                  /\ rec.data = Slice(data, rec.offset, rec.offset + rec.size)
                  /\ rec.tag_id = HeaderTagId(data, h)
                  /\ IF DeclaredSize(data, h) > Len(data) - rec.offset
                     THEN k = Len(records) /\ rec.data = Slice(data, rec.offset, Len(data))
                     ELSE rec.size = DeclaredSize(data, h)
        /\ LET n == Len(records)
               h == HeaderOffsetOf(records, n + 1)
           IN  \/ n > 0 /\ DeclaredSize(data, HeaderOffsetOf(records, n))
                              > Len(data) - records[n].offset
               \/ ~HeaderComplete(data, h)

\* A complete record followed by one cut short by the end of the buffer.
TruncationPolicyWitness ==
    /\ pc = "done"
    /\ ~src.encoded
    /\ Len(records) = 2
    /\ DeclaredSize(data, HeaderOffsetOf(records, 2)) = 3
    /\ records[2].size = 1
    /\ records[1].size = 1

\* -------------------------------- specification: the paragraph decoder
\* Payloads: concatenations of code units of every class, a 14-byte run of
\* control data, and a stray byte that makes the length odd.
TextChunkPool ==
    { <<65, 0>>,       \* U+0041, visible
      <<32, 0>>,       \* U+0020, the first visible code
      <<0, 1>>,        \* U+0100, visible, low byte below 0x20
      <<9, 0>>,        \* tab
      <<10, 0>>,       \* line break
      <<13, 0>>,       \* paragraph end
      <<31, 0>>,       \* another control code
      <<1, 0>>,        \* inline control 0x0001
      <<8, 0>>,        \* inline control 0x0008
      <<66, 0, 66, 0, 66, 0, 66, 0, 66, 0, 66, 0, 66, 0>>,  \* 14 bytes of control data
      <<67>> }         \* one stray byte

TextInputs == {Flatten(cs) : cs \in SeqsUpTo(TextChunkPool, MaxTextChunks)}

InitText ==
    /\ pc = "loop"
    /\ raised = ""
    /\ records = <<>>
    /\ src = [encoded |-> FALSE, recs |-> <<>>]
    /\ i = 0
    /\ chars = <<>>
    /\ ParseIdle
    /\ OutputIdle
    /\ data \in TextInputs

DecodeStep ==
    /\ pc = "loop"
    /\ DecodeLoopGuard(data, i)
    /\ LET s == DecodeBody(data, i, chars)
       IN  /\ i' = s.i
           /\ chars' = s.chars
           /\ raised' = IF s.err THEN "struct.error" ELSE ""
           /\ pc' = IF s.err THEN "raised" ELSE "loop"
    /\ UNCHANGED <<recVars, parseVars, outVars>>

DecodeReturn ==
    /\ pc = "loop"
    /\ ~DecodeLoopGuard(data, i)
    /\ pc' = "done"
    /\ UNCHANGED <<recVars, textVars, parseVars, raised, outVars>>

NextText == DecodeStep \/ DecodeReturn

SpecText == InitText /\ [][NextText]_vars

\* The loop is straight-line code: once entered it runs until it returns.
SpecTextFair == SpecText /\ WF_vars(NextText)

\* The complete UTF-16LE code units of a payload, left to right.
Units(d) == [k \in 1..(Len(d) \div 2) |-> d[2 * k - 1] + 256 * d[2 * k]]

\* The visible characters of a unit sequence from unit k on: an inline
\* control takes the 7 units (14 bytes) after it along.
RECURSIVE VisibleFrom(_, _)
VisibleFrom(u, k) ==
    IF k > Len(u) THEN <<>>
    ELSE IF u[k] \in 1..8 THEN VisibleFrom(u, k + 8)
    ELSE IF u[k] = 10 \/ u[k] = 9 \/ u[k] >= 32 THEN <<u[k]>> \o VisibleFrom(u, k + 1)
    ELSE VisibleFrom(u, k + 1)

\* C3: the decoder returns exactly the visible characters in order (inline
\* controls dropped with their 14 bytes, 0x000A a newline, 0x0009 a tab,
\* 0x000D and the other codes below 0x0020 dropped); the text holds no code
\* point below 0x0020 other than tab and newline.
ParaTextDecoding ==
    /\ pc = "done" =>
        /\ chars = VisibleFrom(Units(data), 1)
        /\ chars = decode_para_text(data).text
    /\ \A k \in 1..Len(chars) : chars[k] >= 32 \/ chars[k] \in {9, 10}

\* An inline control with its 14 bytes absorbed, then a tab that is kept.
ParaTextDecodingWitness ==
    /\ pc = "done"
    /\ Len(data) = 18
    /\ UnpackH(data, 0) \in 1..8
    /\ chars = <<9>>

\* The payload without its trailing odd byte, if it has one.
EvenPrefix(d) == Slice(d, 0, Len(d) - (Len(d) % 2))

\* C4: for every payload, odd-length ones and ones ending inside the 14
\* bytes of an inline control included, the decoder terminates and returns
\* without raising; a trailing odd byte does not change the result.
DecoderRobust ==
    /\ <>(pc = "done")
    /\ [](pc # "raised" /\ raised = "")
    /\ [](pc = "done" => chars = decode_para_text(EvenPrefix(data)).text)
    /\ [][i' > i \/ pc' = "done"]_vars

\* An odd-length payload whose last unit is an inline control: the read
\* offset ends beyond the buffer and the text before it is returned.
DecoderRobustWitness ==
    /\ pc = "done"
    /\ Len(data) % 2 = 1
    /\ i > Len(data)
    /\ chars = <<65>>

\* --------------------------------------------------------------- parse_hwp
\* f"BodyText/Section{section_idx}"
SectionStreamName(n) == "BodyText/Section" \o ToString(n)

\* ole.exists(name)
OleExists(name) == name \in DOMAIN file.streams

\* Path(path).exists()
CheckExists ==
    /\ pc = "exists"
    /\ IF ~file.exists
       THEN pc' = "raised" /\ raised' = "FileNotFoundError"
       ELSE pc' = "is_ole" /\ UNCHANGED raised
    /\ UNCHANGED <<recVars, textVars, parseVars, outVars>>

\* The exception raised for each failed precondition.
NOT_OLE_ERROR == "ValueError"
ENCRYPTED_ERROR == "ValueError"

\* olefile.isOleFile(str(path))
CheckOle ==
    /\ pc = "is_ole"
    /\ IF ~file.is_ole
       THEN pc' = "raised" /\ raised' = NOT_OLE_ERROR
       ELSE pc' = "header" /\ UNCHANGED raised
    /\ UNCHANGED <<recVars, textVars, parseVars, outVars>>

\* 1) _read_hwp_header, then the encrypted check
ReadHeader ==
    /\ pc = "header"
    /\ opened' = Append(opened, "FileHeader")
    /\ LET header == read_hwp_header(file.header)
       IN  /\ result' = [result EXCEPT !.version = header.version,
                                        !.compressed = header.compressed,
                                        !.encrypted = header.encrypted]
           /\ IF header.encrypted
              THEN pc' = "raised" /\ raised' = ENCRYPTED_ERROR
              ELSE pc' = "docinfo" /\ UNCHANGED raised
    /\ UNCHANGED <<recVars, textVars, file, last_read, section_idx, outVars>>

\* The exception, if any, that leaves a stream's processing.
StreamError(dec, recs, extracted_err) ==
    IF dec.err THEN "zlib.error"
    ELSE IF recs.err \/ extracted_err THEN "struct.error"
    ELSE ""

\* 2) DocInfo, if the stream exists
ReadDocInfo ==
    /\ pc = "docinfo"
    /\ IF OleExists("DocInfo")
       THEN LET dec == decompress_stream(file.streams["DocInfo"], result.compressed)
                recs == parse_records(dec.bytes)
                e == StreamError(dec, recs, FALSE)
            IN  /\ opened' = Append(opened, "DocInfo")
                /\ last_read' = dec.bytes
                /\ IF e # ""
                   THEN pc' = "raised" /\ raised' = e /\ UNCHANGED result
                   ELSE /\ result' = extract_docinfo(recs.records, result)
                        /\ pc' = "section"
                        /\ UNCHANGED raised
       ELSE pc' = "section" /\ UNCHANGED <<opened, last_read, result, raised>>
    /\ section_idx' = 0
    /\ UNCHANGED <<recVars, textVars, file, outVars>>

\* Where the stream name goes in result.sections.
PrependSection(sections, name) == <<name>> \o sections
AppendSection(sections, name) == Append(sections, name)

\* 3) one pass through the while loop, the stream of section_idx existing
ReadSection ==
    /\ pc = "section"
    /\ OleExists(SectionStreamName(section_idx))
    /\ LET stream_name == SectionStreamName(section_idx)
           dec == decompress_stream(file.streams[stream_name], result.compressed)
           recs == parse_records(dec.bytes)
           with_name == [result EXCEPT !.sections = AppendSection(@, stream_name)]
           body == extract_body_content(recs.records, with_name)
           e == StreamError(dec, recs, body.err)
       IN  /\ opened' = Append(opened, stream_name)
           /\ last_read' = dec.bytes
           /\ IF e # ""
              THEN pc' = "raised" /\ raised' = e /\ result' = with_name
                   /\ UNCHANGED section_idx
              ELSE /\ result' = body.result
                   /\ section_idx' = section_idx + 1
                   /\ UNCHANGED <<pc, raised>>
    /\ UNCHANGED <<recVars, textVars, file, outVars>>

\* if not ole.exists(stream_name): break; return result
Return ==
    /\ pc = "section"
    /\ ~OleExists(SectionStreamName(section_idx))
    /\ pc' = "done"
    /\ UNCHANGED <<recVars, textVars, parseVars, raised, outVars>>

Next == CheckExists \/ CheckOle \/ ReadHeader \/ ReadDocInfo \/ ReadSection \/ Return

\* ------------------------------------------------- inputs of parse_hwp
U16Bytes(n) == <<n % 256, n \div 256>>

\* A record of fewer than 0xFFF payload bytes on the wire.
RecordBytes(tag_id, level, payload) ==
    HeaderBytes(tag_id, level, Len(payload)) \o payload

\* A raw-deflate stream holding bytes as one final stored block.
DeflateStored(bytes) ==
    <<1>> \o U16Bytes(Len(bytes)) \o U16Bytes(65535 - Len(bytes)) \o bytes

TextPayload(cps) == Flatten([k \in 1..Len(cps) |-> U16Bytes(cps[k])])
ParaText(cps, level) == RecordBytes(HWPTAG_PARA_TEXT, level, TextPayload(cps))
Table(rows, cols) ==
    RecordBytes(HWPTAG_TABLE, 0, <<0, 0, 0, 0>> \o U16Bytes(rows) \o U16Bytes(cols))
TableShort == RecordBytes(HWPTAG_TABLE, 0, <<0, 0, 0, 0, 2, 0>>)
PageDefPayload(vals) == Flatten([k \in 1..9 |-> U32Bytes(vals[k])]) \o <<0, 0, 0, 0>>
SecDef(vals) == RecordBytes(HWPTAG_SEC_DEF, 0, PageDefPayload(vals))
SecDefShort == RecordBytes(HWPTAG_SEC_DEF, 0, Flatten([k \in 1..9 |-> U32Bytes(7200)]))

\* Two page definitions in HWP units: A4 with 30 mm side margins, and Letter.
LayoutA4 == <<59528, 84188, 8504, 8504, 5668, 4252, 4252, 2834, 0>>
LayoutLetter == <<61200, 79200, 7200, 7200, 7200, 7200, 3600, 3600, 720>>

\* Section streams.  An uncompressed stream starts with a record whose
\* first byte is not a Huffman block header (tags 71, 72, 73, 16).
SecA == DeflateStored(ParaText(<<97>>, 0))
SecB ==
    DeflateStored(SecDef(LayoutA4) \o Table(2, 3)
        \o ParaText(<<98, 49>>, 1) \o ParaText(<<98, 50>>, 1)
        \o ParaText(<<98, 51>>, 1) \o ParaText(<<98, 52>>, 1))
SecC ==
    RecordBytes(71, 0, <<>>) \o Table(1, 1)
        \o ParaText(<<99, 49>>, 1) \o ParaText(<<99, 50>>, 1)
        \o Table(0, 5) \o ParaText(<<99, 51>>, 0)
        \o Table(2, 1) \o SecDef(LayoutLetter)
SecD ==
    DeflateStored(SecDefShort \o ParaText(<<13>>, 0) \o TableShort
        \o ParaText(<<100>>, 0))
SectionPool == {SecA, SecB, SecC, SecD}

\* Records for the exhaustively enumerated section.
BodyRecordPool ==
    { ParaText(<<120>>, 0), ParaText(<<121, 9, 122>>, 1), ParaText(<<1>>, 0),
      Table(1, 2), Table(2, 1), Table(0, 1),
      SecDef(LayoutLetter), RecordBytes(66, 0, <<0, 0>>) }

\* DocInfo streams.
FaceName(cps) == RecordBytes(HWPTAG_FACE_NAME, 0, <<0>> \o U16Bytes(Len(cps)) \o TextPayload(cps))
CharShapePayload(font_id, size, attr) ==
    Flatten([k \in 1..7 |-> U16Bytes(font_id)]) \o [k \in 1..28 |-> 100]
        \o U32Bytes(size) \o U32Bytes(attr) \o [k \in 1..10 |-> 0] \o <<16, 32, 48, 0>>
DocRecords ==
    FaceName(<<70, 49>>) \o FaceName(<<70, 50>>)
        \o RecordBytes(HWPTAG_CHAR_SHAPE, 0, CharShapePayload(1, 1000, 2))
        \o RecordBytes(HWPTAG_CHAR_SHAPE, 0, <<0, 0, 0, 0>>)
        \o RecordBytes(HWPTAG_STYLE, 0, <<115, 0, 0, 0>>)
DocA == DeflateStored(DocRecords)
DocB == RecordBytes(16, 0, <<>>) \o DocRecords
\* A font table whose second face has an empty name and whose third face
\* is the one the char shape's font ids select.
DocC ==
    DeflateStored(FaceName(<<70, 49>>) \o FaceName(<<>>) \o FaceName(<<70, 51>>)
        \o RecordBytes(HWPTAG_CHAR_SHAPE, 0, CharShapePayload(2, 1200, 0)))
DocInfoPool == {DocA, DocB, DocC}

\* FileHeader streams: the signature, version 5.0.3.4 and the flag word.
FileHeaderBytes(flags, n) ==
    Slice(<<72, 87, 80, 32, 68, 111, 99, 117, 109, 101, 110, 116, 32, 70, 105, 108, 101>>
            \o [k \in 1..15 |-> 0] \o <<4, 3, 0, 5>> \o <<flags, 0, 0, 0>>, 0, n)
HeaderPool ==
    {FileHeaderBytes(0, 40), FileHeaderBytes(1, 40), FileHeaderBytes(3, 40),
     FileHeaderBytes(6, 40), FileHeaderBytes(1, 36)}

\* The streams of a container: doc and each secs[k] are <<>> (absent) or
\* <<bytes>>.
Streams(doc, secs) ==
    LET present == {k \in DOMAIN secs : secs[k] # <<>>}
        names == (IF doc # <<>> THEN {"DocInfo"} ELSE {})
                    \cup {SectionStreamName(k) : k \in present}
    IN  [n \in names |->
            IF n = "DocInfo" THEN doc[1]
            ELSE secs[CHOOSE k \in present : SectionStreamName(k) = n][1]]

Optional(S) == {<<>>} \cup {<<x>> : x \in S}

OleFile(header, doc, secs) ==
    [exists |-> TRUE, is_ole |-> TRUE, header |-> header,
     streams |-> Streams(doc, secs)]

\* Containers with every header and DocInfo stream over two sections.
HeaderFiles ==
    {OleFile(h, doc, [k \in 0..1 |-> IF k = 0 THEN <<SecA>> ELSE <<SecB>>]) :
        h \in HeaderPool, doc \in Optional(DocInfoPool)}

\* Containers over the section pool, with gaps in the section numbering,
\* flagged uncompressed and compressed.
PoolFiles ==
    {OleFile(FileHeaderBytes(flags, 40), <<>>, secs) :
        flags \in {0, 1}, secs \in [0..MaxSection -> Optional(SectionPool)]}

\* Containers whose Section0 holds every sequence of up to MaxBodyRecords
\* records of the pool, followed by a Section1.
BodyFiles ==
    {OleFile(FileHeaderBytes(1, 40), <<>>,
             [k \in 0..1 |-> IF k = 0 THEN <<DeflateStored(Flatten(rs))>> ELSE <<SecB>>]) :
        rs \in SeqsUpTo(BodyRecordPool, MaxBodyRecords)}

InputFiles ==
    {NoFile, [NoFile EXCEPT !.exists = TRUE]}
        \cup HeaderFiles \cup PoolFiles \cup BodyFiles

Init ==
    /\ pc = "exists"
    /\ raised = ""
    /\ data = <<>>
    /\ src = [encoded |-> FALSE, recs |-> <<>>]
    /\ records = <<>>
    /\ i = 0
    /\ chars = <<>>
    /\ file \in InputFiles
    /\ opened = <<>>
    /\ last_read = <<>>
    /\ section_idx = 0
    /\ result = HwpParseResult
    /\ OutputIdle

Spec == Init /\ [][Next]_vars

\* ------------------------------------------------ claims about parse_hwp
RECURSIVE SortedSeq(_)
SortedSeq(S) ==
    IF S = {} THEN <<>>
    ELSE LET m == CHOOSE x \in S : \A y \in S : x <= y
         IN  <<m>> \o SortedSeq(S \ {m})

\* The records of the stream of section k, as parse_hwp obtains them.
SectionRecords(k) ==
    parse_records(decompress_stream(file.streams[SectionStreamName(k)],
                                    result.compressed).bytes).records

\* The first section index without a stream.
FirstMissing == CHOOSE n \in 0..(MaxSection + 1) :
    /\ ~OleExists(SectionStreamName(n))
    /\ \A k \in 0..(n - 1) : OleExists(SectionStreamName(k))

\* For a record list: the TABLE records that declare at least one row and
\* one column, each with the non-empty texts of the PARA_TEXT records
\* between it and the next TABLE record.
DeclaredTables(recs) ==
    LET tpos == {p \in 1..Len(recs) : recs[p].tag_id = 75}
        rows(p) == IF Len(recs[p].data) >= 8 THEN UnpackH(recs[p].data, 4) ELSE 0
        cols(p) == IF Len(recs[p].data) >= 8 THEN UnpackH(recs[p].data, 6) ELSE 0
        upto(p) == IF \E q \in tpos : q > p
                   THEN (CHOOSE q \in tpos : q > p /\ \A x \in tpos : x > p => q <= x) - 1
                   ELSE Len(recs)
        texts(p) ==
            LET seg == SelectSeq(SubSeq(recs, p + 1, upto(p)),
                         LAMBDA rec : rec.tag_id = 67 /\ VisibleFrom(Units(rec.data), 1) # <<>>)
            IN  [k \in 1..Len(seg) |-> VisibleFrom(Units(seg[k].data), 1)]
        open == SortedSeq({p \in tpos : rows(p) > 0 /\ cols(p) > 0})
    IN  [j \in 1..Len(open) |->
            [rows |-> rows(open[j]), cols |-> cols(open[j]), texts |-> texts(open[j])]]

ExpectedTables == Flatten([k \in 1..Len(result.sections) |-> DeclaredTables(SectionRecords(k - 1))])

\* C5: every table of a parse result has exactly rows rows of exactly cols
\* cells; cell (r, c) is the (r*cols + c)-th collected text when there is
\* one and the empty string otherwise; surplus texts are discarded.
TableFinalization ==
    pc \in {"section", "done"} =>
        LET want == ExpectedTables
        IN  /\ Len(result.tables) = Len(want)
            /\ \A j \in 1..Len(result.tables) :
                 LET t == result.tables[j]
                     w == want[j]
                 IN  /\ t.rows = w.rows /\ t.cols = w.cols
                     /\ Len(t.cells) = t.rows
                     /\ \A r \in 1..t.rows :
                          /\ Len(t.cells[r]) = t.cols
                          /\ \A c \in 1..t.cols :
                               LET idx == (r - 1) * t.cols + (c - 1)
                               IN  t.cells[r][c] =
                                     IF idx < Len(w.texts) THEN w.texts[idx + 1] ELSE <<>>

\* The 2 x 3 table with 4 collected texts: the last two cells are empty.
TableFinalizationWitness ==
    /\ pc = "done"
    /\ \E j \in 1..Len(result.tables) :
         /\ result.tables[j].rows = 2 /\ result.tables[j].cols = 3
         /\ result.tables[j].cells =
              << <<<<98, 49>>, <<98, 50>>, <<98, 51>>>>, <<<<98, 52>>, <<>>, <<>>>> >>
    /\ \E j \in 1..Len(result.tables) :
         /\ result.tables[j].rows = 1 /\ result.tables[j].cols = 2
         /\ result.tables[j].cells = << <<<<120>>, <<121, 9, 122>>>> >>

\* Bit 1 of the FileHeader flag word of the file.
FileEncrypted == Len(file.header) >= 40 /\ (file.header[37] \div 2) % 2 = 1

\* C6: with the encrypted bit set parse_hwp raises after reading only the
\* FileHeader stream: DocInfo and the sections are never opened and no
\* result is returned.
EncryptedRejection ==
    (file.exists /\ file.is_ole /\ FileEncrypted) =>
        /\ pc \in {"exists", "is_ole", "header", "raised"}
        /\ \A k \in 1..Len(opened) : opened[k] = "FileHeader"
        /\ pc = "raised" => raised = "ValueError" /\ opened = <<"FileHeader">>

EncryptedRejectionWitness ==
    /\ pc = "raised"
    /\ FileEncrypted
    /\ file.header[37] % 2 = 0
    /\ opened = <<"FileHeader">>
    /\ OleExists("DocInfo")
    /\ OleExists(SectionStreamName(0))

\* C7: each failed precondition has an error kind of its own, so the kind
\* raised tells which precondition failed: FileNotFoundError only for a
\* missing path, the kind raised for a non-container only for that.
DistinctErrorKinds ==
    pc = "raised" =>
        /\ raised = "FileNotFoundError" <=> ~file.exists
        /\ raised = NOT_OLE_ERROR <=> (file.exists /\ ~file.is_ole)

\* C8: sections are processed in increasing index order up to the first
\* missing index; result.sections is that contiguous prefix; paragraphs and
\* tables of an earlier section precede those of a later one.
SectionParagraphs(k) ==
    extract_body_content(SectionRecords(k), HwpParseResult).result.paragraphs
SectionTables(k) ==
    extract_body_content(SectionRecords(k), HwpParseResult).result.tables
Grid(t) == [rows |-> t.rows, cols |-> t.cols, cells |-> t.cells]

SectionIteration ==
    pc \in {"section", "done"} =>
        /\ Len(result.sections) <= FirstMissing
        /\ pc = "done" => Len(result.sections) = FirstMissing
        /\ result.sections = [k \in 1..Len(result.sections) |-> SectionStreamName(k - 1)]
        /\ section_idx = Len(result.sections)
        /\ SelectSeq(opened, LAMBDA n : n \notin {"FileHeader", "DocInfo"}) = result.sections
        /\ result.paragraphs =
              Flatten([k \in 1..Len(result.sections) |-> SectionParagraphs(k - 1)])
        /\ [j \in 1..Len(result.tables) |-> Grid(result.tables[j])] =
              Flatten([k \in 1..Len(result.sections) |->
                         [j \in 1..Len(SectionTables(k - 1)) |-> Grid(SectionTables(k - 1)[j])]])

\* Section0 and Section1 are read, Section2 is missing, Section3 exists
\* and is never read.
SectionIterationWitness ==
    /\ pc = "done"
    /\ result.sections = <<"BodyText/Section0", "BodyText/Section1">>
    /\ OleExists("BodyText/Section3")
    /\ Len(result.paragraphs) = 5
    /\ result.paragraphs[1].text = <<97>>
    /\ Len(result.tables) = 1

\* C9: page_layout is the layout decoded from the last SEC_DEF record of
\* the sections in processing order, and A4 (210 x 297 mm, default margins)
\* when there is none.
PageLayoutSelection ==
    pc \in {"section", "done"} =>
        LET all == Flatten([k \in 1..Len(result.sections) |-> SectionRecords(k - 1)])
            defs == {p \in 1..Len(all) : all[p].tag_id = 73}
            last == CHOOSE p \in defs : \A q \in defs : q <= p
        IN  IF defs = {}
            THEN result.page_layout =
                   [paper_width_mm |-> 2100, paper_height_mm |-> 2970,
                    margin_top_mm |-> 100, margin_bottom_mm |-> 150,
                    margin_left_mm |-> 200, margin_right_mm |-> 200,
                    margin_header_mm |-> 150, margin_footer_mm |-> 100,
                    margin_gutter_mm |-> 0]
            ELSE result.page_layout = parse_page_def(all[last].data)

\* An A4 SEC_DEF in Section0 replaced by the Letter SEC_DEF of Section1.
PageLayoutSelectionWitness ==
    /\ pc = "done"
    /\ Len(result.sections) = 2
    /\ \E p \in 1..Len(SectionRecords(0)) :
         /\ SectionRecords(0)[p].tag_id = 73
         /\ parse_page_def(SectionRecords(0)[p].data).paper_width_mm = 2100
    /\ result.page_layout.paper_width_mm = 2159
    /\ result.page_layout.paper_height_mm = 2794
    /\ result.page_layout.margin_gutter_mm = 25

\* C10: _decompress_stream never raises on a decompression failure: it
\* returns the raw bytes when the compressed flag is false or inflating
\* fails, and the inflated bytes otherwise.
DecompressFallback ==
    /\ raised # "zlib.error"
    /\ (opened # <<>> /\ opened[Len(opened)] # "FileHeader") =>
        LET raw == file.streams[opened[Len(opened)]]
        IN  /\ ~result.compressed => last_read = raw
            /\ (result.compressed /\ ~Inflate(raw).ok) => last_read = raw
            /\ (result.compressed /\ Inflate(raw).ok) =>
                  last_read = Inflate(raw).out /\ DeflateStored(last_read) = raw

\* A stream flagged compressed that does not inflate is parsed as it is.
DecompressFallbackWitness ==
    /\ pc = "done"
    /\ result.compressed
    /\ Len(opened) = 2
    /\ ~Inflate(file.streams[opened[2]]).ok
    /\ last_read = file.streams[opened[2]]
    /\ Len(result.tables) = 2

\* ------------------------------------ specification: the file header
\* FileHeader streams of 40 and of 44 bytes: every version byte and the low
\* flag byte from the extremes of their bits, the upper flag bytes all
\* clear or all set.
VersionBytePool == {0, 4, 5, 255}
FlagBytePool == {0, 1, 2, 3, 252, 253, 254, 255}
HeaderTailPool == {<<>>, <<255, 255, 255, 255>>}

HeaderInputs ==
    {Slice(FileHeaderBytes(0, 40), 0, 32) \o <<v0, v1, v2, v3>> \o <<f0, fh, fh, fh>> \o tail :
        v0 \in VersionBytePool, v1 \in VersionBytePool,
        v2 \in VersionBytePool, v3 \in VersionBytePool,
        f0 \in FlagBytePool, fh \in {0, 255}, tail \in HeaderTailPool}

InitHeader ==
    /\ pc = "header"
    /\ raised = ""
    /\ data = <<>>
    /\ src = [encoded |-> FALSE, recs |-> <<>>]
    /\ records = <<>>
    /\ i = 0
    /\ chars = <<>>
    /\ file \in {[exists |-> TRUE, is_ole |-> TRUE, header |-> h, streams |-> <<>>] :
                    h \in HeaderInputs}
    /\ opened = <<>>
    /\ last_read = <<>>
    /\ section_idx = 0
    /\ result = HwpParseResult
    /\ OutputIdle

NextHeader == ReadHeader

SpecHeader == InitHeader /\ [][NextHeader]_vars

\* The 16-bit halves of the little-endian 32-bit word at offset off.
WordLow(h, off) == h[off + 1] + 256 * h[off + 2]
WordHigh(h, off) == h[off + 3] + 256 * h[off + 4]

\* C11: for a FileHeader of at least 40 bytes, version is
\* major.minor.build.revision with the four numbers bits 31-24, 23-16, 15-8
\* and 7-0 of the word at offset 32; compressed is bit 0 and encrypted is
\* bit 1 of the word at offset 36, whatever the other 30 bits are.
HeaderDecoding ==
    (pc # "header" /\ Len(file.header) >= 40) =>
        LET h == file.header
        IN  /\ result.version =
                  ToString(WordHigh(h, 32) \div 256) \o "." \o
                  ToString(WordHigh(h, 32) % 256) \o "." \o
                  ToString(WordLow(h, 32) \div 256) \o "." \o
                  ToString(WordLow(h, 32) % 256)
            /\ result.compressed = (WordLow(h, 36) % 2 = 1)
            /\ result.encrypted = ((WordLow(h, 36) \div 2) % 2 = 1)

\* Version 5.0.4.255 read from a 44-byte header whose flag word is 0xFFFFFFFD.
HeaderDecodingWitness ==
    /\ pc = "docinfo"
    /\ Len(file.header) = 44
    /\ Slice(file.header, 32, 40) = <<255, 4, 0, 5, 253, 255, 255, 255>>
    /\ result.version = "5.0.4.255"
    /\ result.compressed
    /\ ~result.encrypted

\* C12: every char shape of a parse result has exactly 7 font ids, whatever
\* the length of its CHAR_SHAPE record.
CharShapeFontIds ==
    \A k \in 1..Len(result.char_shapes) :
        Len(result.char_shapes[k].font_ids) = 7

\* ============================================================== style.py
\* ------------------------------------------------- extract_style_profile
\* FontSpec(name=..., size_pt=..., bold=...); sizes in tenths of a point.
FontSpec(name, size_pt, bold) ==
    [name |-> name, size_pt |-> size_pt, bold |-> bold, italic |-> FALSE]

\* StyleProfile(name=..., source_file=...) as constructed; the two default
\* font names are the code points of the literals in the dataclass.
HAMCHOROM_BATANG == <<54632, 52488, 47212, 48148, 53461>>
HAMCHOROM_DOTUM == <<54632, 52488, 47212, 46027, 50880>>

StyleProfile ==
    [fonts |-> <<>>,
     primary_font |-> FontSpec(HAMCHOROM_BATANG, 100, FALSE),
     heading_font |-> FontSpec(HAMCHOROM_DOTUM, 140, TRUE),
     body_font |-> FontSpec(HAMCHOROM_BATANG, 100, FALSE),
     sections |-> <<>>, styles |-> <<>>, char_shapes_count |-> 0,
     font_names |-> <<>>]

\* [f.name for f in parsed.fonts if f.name]
FontNames(fonts) ==
    LET named == SelectSeq(fonts, LAMBDA f : f.name # <<>>)
    IN  [k \in 1..Len(named) |-> named[k].name]

\* The keys of size_counts in insertion order: each size at its first
\* occurrence in the char-shape list.
SizeKeys(shapes) ==
    LET firsts == {k \in 1..Len(shapes) :
                     \A j \in 1..(k - 1) : shapes[j].font_size_pt # shapes[k].font_size_pt}
    IN  [n \in 1..Cardinality(firsts) |-> shapes[SortedSeq(firsts)[n]].font_size_pt]

\* size_counts[size]
SizeCount(shapes, size) ==
    Cardinality({k \in 1..Len(shapes) : shapes[k].font_size_pt = size})

\* max(size_counts, key=size_counts.get): the first key, in iteration
\* order, whose count no other key exceeds.
BodySizeLastWins(shapes) ==
    LET keys == SizeKeys(shapes)
        best == {n \in 1..Len(keys) :
                   \A q \in 1..Len(keys) : SizeCount(shapes, keys[q]) <= SizeCount(shapes, keys[n])}
    IN  keys[CHOOSE n \in best : \A q \in best : q <= n]
BodySize(shapes) ==
    LET keys == SizeKeys(shapes)
        best == {n \in 1..Len(keys) :
                   \A q \in 1..Len(keys) : SizeCount(shapes, keys[q]) <= SizeCount(shapes, keys[n])}
    IN  keys[CHOOSE n \in best : \A q \in best : n <= q]

\* max(size_counts.keys())
HeadingSize(shapes) ==
    LET keys == SizeKeys(shapes)
    IN  CHOOSE v \in {keys[n] : n \in 1..Len(keys)} :
            \A n \in 1..Len(keys) : keys[n] <= v

\* next((cs for cs in parsed.char_shapes if cs.font_size_pt == size), None)
FirstWithSize(shapes, size) ==
    shapes[CHOOSE k \in 1..Len(shapes) :
             /\ shapes[k].font_size_pt = size
             /\ \A j \in 1..(k - 1) : shapes[j].font_size_pt # size]

\* if cs and cs.font_ids and profile.font_names: ... if font_idx < len(...)
FontResolves(cs, names) ==
    cs.font_ids # <<>> /\ names # <<>> /\ cs.font_ids[1] < Len(names)

PageSection(layout) ==
    [paper_width_mm |-> layout.paper_width_mm,
     paper_height_mm |-> layout.paper_height_mm,
     margins |-> [top |-> layout.margin_top_mm, bottom |-> layout.margin_bottom_mm,
                  left |-> layout.margin_left_mm, right |-> layout.margin_right_mm,
                  header |-> layout.margin_header_mm, footer |-> layout.margin_footer_mm,
                  gutter |-> layout.margin_gutter_mm]]

\* extract_style_profile once parse_hwp has returned parsed.
extract_style_profile(parsed) ==
    LET names == FontNames(parsed.fonts)
        shapes == parsed.char_shapes
        p0 == [StyleProfile EXCEPT
                 !.font_names = names,
                 !.fonts = [k \in 1..Len(names) |-> FontSpec(names[k], 100, FALSE)]]
        p1 == IF shapes = <<>> THEN p0
              ELSE
              LET body_size == BodySize(shapes)
                  heading_size == HeadingSize(shapes)
                  body_cs == FirstWithSize(shapes, body_size)
                  heading_cs == FirstWithSize(shapes, heading_size)
                  counted == [p0 EXCEPT !.char_shapes_count = Len(shapes)]
                  with_body ==
                      IF FontResolves(body_cs, names)
                      THEN LET f == FontSpec(names[body_cs.font_ids[1] + 1],
                                             body_size, body_cs.bold)
                           IN  [counted EXCEPT !.body_font = f, !.primary_font = f]
                      ELSE counted
              IN  IF heading_size # body_size /\ FontResolves(heading_cs, names)
                  THEN [with_body EXCEPT !.heading_font =
                          FontSpec(names[heading_cs.font_ids[1] + 1], heading_size, TRUE)]
                  ELSE with_body
    IN  [p1 EXCEPT !.sections = Append(@, PageSection(parsed.page_layout)),
                   !.styles = parsed.styles]

\* parsed = parse_hwp(hwp_path) has returned: the rest of the function.
ExtractStyle ==
    /\ pc = "done"
    /\ pc' = "styled"
    /\ profile' = extract_style_profile(result)
    /\ UNCHANGED <<recVars, textVars, parseVars, raised, builder, disk, report, edit, access, run>>

\* ------------------------------------------ inputs of the style heuristic
MaxShapes == 3

\* CHAR_SHAPE records: (font id, size in 1/100 pt, attribute word), and one
\* too short to be decoded.
ShapeRecordPool ==
    { RecordBytes(HWPTAG_CHAR_SHAPE, 0, CharShapePayload(0, 1000, 0)),
      RecordBytes(HWPTAG_CHAR_SHAPE, 0, CharShapePayload(1, 1400, 2)),
      RecordBytes(HWPTAG_CHAR_SHAPE, 0, CharShapePayload(2, 1200, 0)),
      RecordBytes(HWPTAG_CHAR_SHAPE, 0, CharShapePayload(7, 1000, 2)),
      RecordBytes(HWPTAG_CHAR_SHAPE, 0, <<0, 0, 0, 0>>) }

FontRecordPool ==
    { <<>>,
      FaceName(<<70, 49>>) \o FaceName(<<70, 50>>),
      FaceName(<<70, 49>>) \o FaceName(<<70, 50>>) \o FaceName(<<70, 51>>) }

\* Uncompressed containers: a DocInfo stream of font and char-shape
\* records, with or without a Section0.
StyleFiles ==
    {OleFile(FileHeaderBytes(0, 40),
             <<RecordBytes(16, 0, <<>>) \o fonts \o Flatten(shapes)>>,
             [k \in 0..0 |-> sec]) :
        fonts \in FontRecordPool,
        shapes \in SeqsUpTo(ShapeRecordPool, MaxShapes),
        sec \in {<<>>, <<SecC>>}}

InitStyle ==
    /\ pc = "exists"
    /\ raised = ""
    /\ data = <<>>
    /\ src = [encoded |-> FALSE, recs |-> <<>>]
    /\ records = <<>>
    /\ i = 0
    /\ chars = <<>>
    /\ file \in StyleFiles
    /\ opened = <<>>
    /\ last_read = <<>>
    /\ section_idx = 0
    /\ result = HwpParseResult
    /\ OutputIdle

NextStyle == Next \/ ExtractStyle

SpecStyle == InitStyle /\ [][NextStyle]_vars

\* The sizes occurring in the parsed char-shape list, their counts and
\* first positions.
ShapeSizes == {result.char_shapes[k].font_size_pt : k \in 1..Len(result.char_shapes)}
Occurrences(size) ==
    Cardinality({k \in 1..Len(result.char_shapes) : result.char_shapes[k].font_size_pt = size})
FirstAt(size) ==
    CHOOSE k \in 1..Len(result.char_shapes) :
        /\ result.char_shapes[k].font_size_pt = size
        /\ \A j \in 1..(k - 1) : result.char_shapes[j].font_size_pt # size

\* The font a size resolves to: fontIds[0] of the first char shape of that
\* size as an index into the font-name list; <<>> when it does not resolve.
ResolvedName(size) ==
    LET cs == result.char_shapes[FirstAt(size)]
    IN  IF cs.font_ids # <<>> /\ cs.font_ids[1] < Len(profile.font_names)
        THEN <<profile.font_names[cs.font_ids[1] + 1]>>
        ELSE <<>>

\* C13: the body size is the most frequent font size, the earliest in list
\* order among equally frequent ones; the heading size is the largest one
\* and gives a heading font only when it differs from the body size; each
\* resolves to a name through fontIds[0] of the first char shape of that
\* size.
StyleHeuristic ==
    (pc = "styled" /\ result.char_shapes # <<>>) =>
        LET body == CHOOSE s \in ShapeSizes :
                        \A t \in ShapeSizes \ {s} :
                            \/ Occurrences(t) < Occurrences(s)
                            \/ Occurrences(t) = Occurrences(s) /\ FirstAt(s) < FirstAt(t)
            heading == CHOOSE s \in ShapeSizes : \A t \in ShapeSizes : t <= s
        IN  /\ profile.font_names = [k \in 1..Len(result.fonts) |-> result.fonts[k].name]
            /\ IF ResolvedName(body) # <<>>
               THEN /\ profile.body_font.name = ResolvedName(body)[1]
                    /\ profile.body_font.size_pt = body
                    /\ profile.primary_font = profile.body_font
               ELSE profile.body_font = StyleProfile.body_font
            /\ IF heading # body /\ ResolvedName(heading) # <<>>
               THEN /\ profile.heading_font.name = ResolvedName(heading)[1]
                    /\ profile.heading_font.size_pt = heading
               ELSE profile.heading_font = StyleProfile.heading_font

\* Sizes 12, 10 and 14 pt once each: 12 pt, the first, is the body size and
\* 14 pt the heading size.
StyleHeuristicWitness ==
    /\ pc = "styled"
    /\ [k \in 1..Len(result.char_shapes) |-> result.char_shapes[k].font_size_pt]
          = <<120, 100, 140>>
    /\ profile.body_font = FontSpec(<<70, 51>>, 120, FALSE)
    /\ profile.heading_font = FontSpec(<<70, 50>>, 140, TRUE)

\* ======================================================== hwpx_engine.py
\* ------------------------------------------------------- text primitives
\* The characters str.strip() removes, among those the inputs use.
WHITESPACE == {9, 10, 11, 12, 13, 28, 29, 30, 31, 32, 133, 160, 12288}

RECURSIVE LStrip(_)
LStrip(t) == IF t # <<>> /\ t[1] \in WHITESPACE THEN LStrip(Tail(t)) ELSE t

RECURSIVE RStrip(_)
RStrip(t) ==
    IF t # <<>> /\ t[Len(t)] \in WHITESPACE THEN RStrip(SubSeq(t, 1, Len(t) - 1)) ELSE t

\* str.strip()
Strip(t) == RStrip(LStrip(t))

\* str.startswith(prefix), str.endswith(suffix), sub in t
StartsWith(t, prefix) ==
    Len(prefix) <= Len(t) /\ SubSeq(t, 1, Len(prefix)) = prefix
EndsWith(t, suffix) ==
    Len(suffix) <= Len(t) /\ SubSeq(t, Len(t) - Len(suffix) + 1, Len(t)) = suffix
Contains(t, sub) ==
    \E k \in 0..(Len(t) - Len(sub)) : SubSeq(t, k + 1, k + Len(sub)) = sub

\* str.replace(old, new) for a non-empty old: leftmost occurrences, not
\* overlapping.
RECURSIVE Replace(_, _, _)
Replace(t, old, new) ==
    CASE old # <<>> ->
        IF Len(t) < Len(old) THEN t
        ELSE IF SubSeq(t, 1, Len(old)) = old
        THEN new \o Replace(SubSeq(t, Len(old) + 1, Len(t)), old, new)
        ELSE <<t[1]>> \o Replace(Tail(t), old, new)

\* str.split(sep) for a one-character sep: the pieces between separators.
RECURSIVE SplitFrom(_, _, _)
SplitFrom(t, sep, piece) ==
    IF t = <<>> THEN <<piece>>
    ELSE IF t[1] = sep THEN <<piece>> \o SplitFrom(Tail(t), sep, <<>>)
    ELSE SplitFrom(Tail(t), sep, Append(piece, t[1]))
Split(t, sep) == SplitFrom(t, sep, <<>>)

\* "\n".join(lines)
RECURSIVE JoinLines(_)
JoinLines(lines) ==
    IF lines = <<>> THEN <<>>
    ELSE IF Len(lines) = 1 THEN lines[1]
    ELSE lines[1] \o <<10>> \o JoinLines(Tail(lines))

\* dict.get(key, default); a dict is a function from strings, {} is <<>>
DictGet(d, key, default) == IF key \in DOMAIN d THEN d[key] ELSE default

\* ------------------------------------------------------------ StyleMirror
\* Lengths of a profile ("210.0mm") are held as tenths of a millimetre,
\* font and size values as text, line spacings as integers.  A colour is
\* [kind |-> "rgb", rgb |-> <<r, g, b>>] for the text "rgb(r,g,b)" and
\* [kind |-> "other"] for a text without "rgb".
MALGUN_GOTHIC == <<47569, 51008, 32, 44256, 46357>>
TEXT_10PT == <<49, 48, 112, 116>>

HWPUNIT_PER_MM_X100 == 28346
PT_TO_HWPUNIT == 100

\* StyleMirror(profile): profile or {}, and the five sub-dictionaries
StyleMirror(prof) ==
    [profile |-> prof,
     char_styles |-> DictGet(prof, "characterStyles", <<>>),
     para_styles |-> DictGet(prof, "paragraphStyles", <<>>),
     fonts |-> DictGet(prof, "fonts", <<>>),
     margins |-> DictGet(prof, "margins", <<>>),
     paper |-> DictGet(prof, "paperSize", <<>>)]

\* StyleMirror.default()
DefaultProfile ==
    [paperSize |-> [type |-> "A4", width |-> 2100, height |-> 2970],
     margins |-> [top |-> 100, bottom |-> 150, left |-> 200, right |-> 200,
                  header |-> 150, footer |-> 100, gutter |-> 0],
     characterStyles |->
        [bodyText |-> [font |-> MALGUN_GOTHIC, size |-> TEXT_10PT,
                       bold |-> FALSE, italic |-> FALSE],
         sectionTitle |-> [font |-> <<72, 89, 54756, 46300, 46972, 51064, 77>>, size |-> <<49, 56, 112, 116>>,
                           bold |-> FALSE, italic |-> TRUE],
         tableHeader |-> [font |-> MALGUN_GOTHIC, size |-> TEXT_10PT,
                          bold |-> TRUE, italic |-> FALSE],
         tableCell |-> [font |-> MALGUN_GOTHIC, size |-> <<57, 112, 116>>,
                        bold |-> FALSE, italic |-> FALSE]],
     paragraphStyles |->
        [default |-> [alignment |-> "justify", lineSpacing |-> 160,
                      lineSpacingUnit |-> "percent"],
         sectionTitle |-> [alignment |-> "distribute", lineSpacing |-> 160]]]

get_paper_width_mm(style) == DictGet(style.paper, "width", 2100)
get_paper_height_mm(style) == DictGet(style.paper, "height", 2970)
get_margin_mm(style, side) == DictGet(style.margins, side, 0)

\* A named style that is absent gives {} instead of the bodyText entry.
get_char_style_no_fallback(style, sname) == DictGet(style.char_styles, sname, <<>>)
get_char_style(style, sname) ==
    DictGet(style.char_styles, sname, DictGet(style.char_styles, "bodyText", <<>>))
get_para_style(style, sname) ==
    DictGet(style.para_styles, sname, DictGet(style.para_styles, "default", <<>>))

\* get_font_name: the first of several names separated by "/"
get_font_name(style, sname) ==
    LET font == DictGet(get_char_style(style, sname), "font", MALGUN_GOTHIC)
    IN  IF Contains(font, <<47>>) THEN Strip(Split(font, 47)[1]) ELSE font

\* float(text), in hundredths, for the texts this model reads: digits with
\* at most one fractional digit 0 or 5 give a value; an empty text, or one
\* with a character no float literal contains, raises ValueError.
DIGITS == 48..57
FLOAT_CHARS ==
    DIGITS \cup WHITESPACE \cup
        {43, 45, 46, 95, 69, 101, 73, 105, 78, 110, 70, 102, 65, 97, 84, 116, 89, 121}

RECURSIVE DigitsValue(_)
DigitsValue(t) ==
    IF t = <<>> THEN 0 ELSE DigitsValue(SubSeq(t, 1, Len(t) - 1)) * 10 + (t[Len(t)] - 48)

IsDigits(t) == t # <<>> /\ \A k \in 1..Len(t) : t[k] \in DIGITS

ParseFloat(t) ==
    CASE t = <<>> -> [ok |-> FALSE, val |-> 0]
      [] \E k \in 1..Len(t) : t[k] \notin FLOAT_CHARS -> [ok |-> FALSE, val |-> 0]
      [] IsDigits(t) -> [ok |-> TRUE, val |-> DigitsValue(t) * 100]
      [] /\ Len(t) >= 3
         /\ IsDigits(SubSeq(t, 1, Len(t) - 2))
         /\ t[Len(t) - 1] = 46
         /\ t[Len(t)] \in {48, 53}
         -> [ok |-> TRUE,
             val |-> DigitsValue(SubSeq(t, 1, Len(t) - 2)) * 100 + (t[Len(t)] - 48) * 10]

\* get_font_size_pt, in hundredths of a point: the first bound of a range.
get_font_size_pt(style, sname) ==
    LET size_str == DictGet(get_char_style(style, sname), "size", TEXT_10PT)
        first == Strip(Split(Replace(size_str, <<112, 116>>, <<>>), 45)[1])
        f == ParseFloat(first)
    IN  IF f.ok THEN f.val ELSE 1000

get_line_spacing(style, sname) ==
    DictGet(get_para_style(style, sname), "lineSpacing", 160)
get_alignment(style, sname) ==
    DictGet(get_para_style(style, sname), "alignment", "justify")

\* get_font_list: the distinct non-empty names of the profile's fonts in
\* order, or three default names.
RECURSIVE DistinctNames(_, _)
DistinctNames(fonts, names) ==
    IF fonts = <<>> THEN names
    ELSE LET name == DictGet(fonts[1], "name", <<>>)
         IN  DistinctNames(Tail(fonts),
                 IF name # <<>> /\ \A k \in 1..Len(names) : names[k] # name
                 THEN Append(names, name) ELSE names)

get_font_list(style) ==
    LET names == DistinctNames(style.fonts, <<>>)
    IN  IF names # <<>> THEN names
        ELSE <<MALGUN_GOTHIC, HAMCHOROM_BATANG, HAMCHOROM_DOTUM>>

\* ------------------------------------------------------------- HwpxBuilder
\* HwpxBuilder(style): style or StyleMirror.default(), no sections
HwpxBuilder(style) ==
    [style |-> style, sections |-> <<>>, font_list |-> get_font_list(style)]

\* The block add_section appends.
SectionBlock(title, content, sname, section_key) ==
    [title |-> title, content |-> content, style_name |-> sname,
     section_key |-> section_key]

\* Entry names of the package, as text.
NAME_MIMETYPE == <<109, 105, 109, 101, 116, 121, 112, 101>>
NAME_MANIFEST == <<77, 69, 84, 65, 45, 73, 78, 70, 47, 109, 97, 110, 105, 102, 101, 115, 116, 46, 120, 109, 108>>
NAME_CONTENT_HPF == <<67, 111, 110, 116, 101, 110, 116, 115, 47, 99, 111, 110, 116, 101, 110, 116, 46, 104, 112, 102>>
NAME_HEADER == <<67, 111, 110, 116, 101, 110, 116, 115, 47, 104, 101, 97, 100, 101, 114, 46, 120, 109, 108>>
NAME_SECTION0 == <<67, 111, 110, 116, 101, 110, 116, 115, 47, 115, 101, 99, 116, 105, 111, 110, 48, 46, 120, 109, 108>>
\* The text _build_legacy writes to the mimetype file.
MimetypeZip == <<97, 112, 112, 108, 105, 99, 97, 116, 105, 111, 110, 47, 122, 105, 112>>
MIMETYPE == <<97, 112, 112, 108, 105, 99, 97, 116, 105, 111, 110, 47, 104, 119, 112, 43, 122, 105, 112>>

\* _write_manifest: the file entries of the manifest element
ManifestXml ==
    [root |-> "manifest",
     file_entries |->
        << [full_path |-> <<47>>, media_type |-> MIMETYPE],
           [full_path |-> NAME_CONTENT_HPF, media_type |-> "application/xml"],
           [full_path |-> NAME_HEADER, media_type |-> "application/xml"],
           [full_path |-> NAME_SECTION0, media_type |-> "application/xml"] >>]

\* _write_content_hpf
ContentHpfXml ==
    [root |-> "ha:HWPDocumentPackage", version |-> "1.0",
     FileHeader |-> [Version |-> "1.0.0.0"],
     BodyText |-> [Count |-> "1", SectionRef |-> <<[Href |-> "section0.xml"]>>],
     Head |-> [HeadRef |-> <<[Href |-> "header.xml"]>>]]

\* The seven script types of a font face, in the order of the literal list
\* (the code points of the Korean words for Hangul, Latin, Hanja, Japanese,
\* other, symbol and user).
SCRIPT_TYPES ==
    << <<54620, 44544>>, <<50689, 47928>>, <<54620, 51088>>, <<51068, 48376, 50612>>,
       <<44592, 53440>>, <<44592, 54840>>, <<49324, 50857, 51088>> >>

\* f"{n:02X}" for n below 256, and _parse_rgb_to_hex of "rgb(r,g,b)"
HexDigit(n) == IF n < 10 THEN 48 + n ELSE 55 + n
Hex2(n) == CASE n < 256 -> <<HexDigit(n \div 16), HexDigit(n % 16)>>
parse_rgb_to_hex(color) ==
    <<35>> \o Hex2(color.rgb[1]) \o Hex2(color.rgb[2]) \o Hex2(color.rgb[3])

\* list.index(name) as a 0-based position, 0 when the name is not listed
FontIndex(font_list, name) ==
    LET hits == {k \in 1..Len(font_list) : font_list[k] = name}
    IN  IF hits = {} THEN 0 ELSE (CHOOSE k \in hits : \A j \in hits : k <= j) - 1

\* One hh:CharShape element of _write_header.
CharShapeXml(b, sname, cs_id) ==
    LET char_style == get_char_style(b.style, sname)
        color == DictGet(char_style, "color", [kind |-> "rgb", rgb |-> <<0, 0, 0>>])
        font_idx == FontIndex(b.font_list, get_font_name(b.style, sname))
    IN  [Id |-> cs_id,
         Height |-> (get_font_size_pt(b.style, sname) * PT_TO_HWPUNIT) \div 100,
         Bold |-> DictGet(char_style, "bold", FALSE),
         Italic |-> DictGet(char_style, "italic", FALSE),
         Underline |-> DictGet(char_style, "underline", FALSE),
         TextColor |-> IF color.kind = "rgb" THEN parse_rgb_to_hex(color) ELSE <<>>,
         FontRef |-> [k \in 1..7 |-> [Type |-> SCRIPT_TYPES[k], Id |-> font_idx]]]

\* ps.set("Align", align_map.get(alignment, "Justify"))
AlignName(alignment) ==
    CASE alignment = "justify" -> "Justify"
      [] alignment = "distribute" -> "Distribute"
      [] alignment = "left" -> "Left"
      [] alignment = "center" -> "Center"
      [] alignment = "right" -> "Right"
      [] OTHER -> "Justify"

ParaShapeXml(b, para_name, ps_id) ==
    [Id |-> ps_id, Align |-> AlignName(get_alignment(b.style, para_name)),
     LineSpacing |-> get_line_spacing(b.style, para_name),
     LineSpacingType |-> "Percent"]

\* _write_header
HeaderXml(b) ==
    [root |-> "hh:Head",
     FontFaces |->
        [n \in 1..(7 * Len(b.font_list)) |->
            [Id |-> (n - 1) \div 7, Type |-> SCRIPT_TYPES[((n - 1) % 7) + 1],
             Name |-> b.font_list[((n - 1) \div 7) + 1]]],
     CharShapes |-> << CharShapeXml(b, "bodyText", 0), CharShapeXml(b, "sectionTitle", 1),
                       CharShapeXml(b, "tableHeader", 2), CharShapeXml(b, "tableCell", 3) >>,
     ParaShapes |-> << ParaShapeXml(b, "default", 0), ParaShapeXml(b, "sectionTitle", 1) >>]

\* str(int(mm * HWPUNIT_PER_MM)) for a length of t tenths of a millimetre.
\* int() truncates.  A positive product that is a whole number is decided
\* by the binary floating-point product and is not an input of this model.
MmToUnits(t) ==
    CASE t = 0 -> 0
      [] t > 0 /\ (t * HWPUNIT_PER_MM_X100) % 1000 # 0 ->
            (t * HWPUNIT_PER_MM_X100) \div 1000

\* _add_paragraph: a paragraph element, with a run only for a non-empty text
Paragraph(text, char_shape_id, para_shape_id) ==
    [ParaShapeId |-> para_shape_id,
     Run |-> IF text # <<>>
             THEN <<[CharShapeId |-> char_shape_id, T |-> text]>>
             ELSE <<>>]

\* set(stripped.replace("|", "").replace("-", "").strip()) <= {"", " "}
IsSeparator(stripped) ==
    LET rest == Strip(SelectSeq(stripped, LAMBDA ch : ch # 124 /\ ch # 45))
    IN  \A k \in 1..Len(rest) : rest[k] = 32

\* The content lines with blank lines dropped instead of kept as empty
\* paragraphs.
LineParagraphsSkipBlank(line) ==
    LET stripped == Strip(line)
    IN  IF stripped = <<>> THEN <<>>
        ELSE IF stripped[1] = 124 /\ IsSeparator(stripped) THEN <<>>
        ELSE <<Paragraph(stripped, 0, 0)>>

\* The paragraphs of one content line: none for a separator line.
LineParagraphs(line) ==
    LET stripped == Strip(line)
    IN  IF stripped = <<>> THEN <<Paragraph(<<>>, 0, 0)>>
        ELSE IF stripped[1] = 124
        THEN IF IsSeparator(stripped) THEN <<>>
             ELSE <<Paragraph(stripped, 0, 0)>>
        ELSE <<Paragraph(stripped, 0, 0)>>

\* _add_content_paragraphs: the title paragraph, then the content lines
ContentParagraphs(section) ==
    LET lines == Split(section.content, 10)
    IN  <<Paragraph(section.title, 1, 1)>>
            \o Flatten([k \in 1..Len(lines) |-> LineParagraphs(lines[k])])

\* _write_section
SectionXml(b) ==
    [root |-> "hs:Section",
     PageDef |->
        [Width |-> MmToUnits(get_paper_width_mm(b.style)),
         Height |-> MmToUnits(get_paper_height_mm(b.style)),
         Margin |-> [Top |-> MmToUnits(get_margin_mm(b.style, "top")),
                     Bottom |-> MmToUnits(get_margin_mm(b.style, "bottom")),
                     Left |-> MmToUnits(get_margin_mm(b.style, "left")),
                     Right |-> MmToUnits(get_margin_mm(b.style, "right")),
                     Header |-> MmToUnits(get_margin_mm(b.style, "header")),
                     Footer |-> MmToUnits(get_margin_mm(b.style, "footer")),
                     Gutter |-> MmToUnits(get_margin_mm(b.style, "gutter"))]],
     Paragraphs |->
        Flatten([k \in 1..Len(b.sections) |-> ContentParagraphs(b.sections[k])])]

\* ------------------------------------------------------ files and packages
\* A file at a path: absent, present with bytes that are not a ZIP archive,
\* or a ZIP archive with its entries in order.  An entry has its name, its
\* compression type, its content and whether its stored CRC matches.
AbsentFile == [kind |-> "absent", bytes |-> <<>>, entries |-> <<>>]
BytesFile(bytes) == [kind |-> "bytes", bytes |-> bytes, entries |-> <<>>]
ZipArchive(entries) == [kind |-> "zip", bytes |-> <<>>, entries |-> entries]
ZipEntry(name, compress_type, content) ==
    [name |-> name, compress_type |-> compress_type, content |-> content,
     crc_ok |-> TRUE]

IN_PATH == "in.hwpx"
OUT_PATH == "out.hwpx"

\* ----------------------------------------------------------- _build_legacy
\* str < str by code points, and Path < Path by the parts between "/"
RECURSIVE TextLess(_, _)
TextLess(a, b) ==
    IF b = <<>> THEN FALSE
    ELSE IF a = <<>> THEN TRUE
    ELSE IF a[1] # b[1] THEN a[1] < b[1]
    ELSE TextLess(Tail(a), Tail(b))

RECURSIVE PartsLess(_, _)
PartsLess(pa, pb) ==
    IF pb = <<>> THEN FALSE
    ELSE IF pa = <<>> THEN TRUE
    ELSE IF pa[1] # pb[1] THEN TextLess(pa[1], pb[1])
    ELSE PartsLess(Tail(pa), Tail(pb))

PathLess(a, b) == PartsLess(Split(a, 47), Split(b, 47))

\* sorted(tmp.rglob("*")), restricted to the files
RECURSIVE SortedPaths(_)
SortedPaths(S) ==
    IF S = {} THEN <<>>
    ELSE LET m == CHOOSE x \in S : \A y \in S \ {x} : PathLess(x, y)
         IN  <<m>> \o SortedPaths(S \ {m})

\* The files written under the temporary directory, by relative path.
TmpTree(b) ==
    [n \in {NAME_MIMETYPE, NAME_MANIFEST, NAME_CONTENT_HPF, NAME_HEADER, NAME_SECTION0} |->
        IF n = NAME_MIMETYPE THEN MIMETYPE
        ELSE IF n = NAME_MANIFEST THEN ManifestXml
        ELSE IF n = NAME_CONTENT_HPF THEN ContentHpfXml
        ELSE IF n = NAME_HEADER THEN HeaderXml(b)
        ELSE SectionXml(b)]

\* if fpath.is_file() and fpath.name != "mimetype"
IsPackedLaterAlways(path) == TRUE
IsPackedLater(path) ==
    LET parts == Split(path, 47) IN parts[Len(parts)] # NAME_MIMETYPE

\* The entries written to the ZIP: mimetype first and stored, then the
\* other files in sorted order, deflated.
BuildEntries(b) ==
    LET tree == TmpTree(b)
        rest == SelectSeq(SortedPaths(DOMAIN tree), IsPackedLater)
    IN  <<ZipEntry(NAME_MIMETYPE, "ZIP_STORED", tree[NAME_MIMETYPE])>>
            \o [k \in 1..Len(rest) |-> ZipEntry(rest[k], "ZIP_DEFLATED", tree[rest[k]])]

\* ------------------------------------------------------------ validate_hwpx
\* The errors a report can hold, for the messages of the source:
\*   "file_missing"         파일 없음: {path}
\*   "wrong_mimetype"       잘못된 mimetype: {mt}
\*   "mimetype_missing"     mimetype 파일 없음
\*   "content_hpf_missing"  Contents/content.hpf 없음
\*   "sections_missing"     섹션 파일 없음
\*   "bad_zip"              유효한 ZIP 파일이 아닙니다
EXPECTED_MIMETYPE == <<97, 112, 112, 108, 105, 99, 97, 116, 105, 111, 110, 47, 104, 119, 112, 43, 122, 105, 112>>

EmptyReport ==
    [valid |-> FALSE, has_mimetype |-> FALSE, has_manifest |-> FALSE,
     has_content_hpf |-> FALSE, has_header |-> FALSE, has_sections |-> FALSE,
     section_count |-> 0, file_count |-> 0, errors |-> <<>>]

\* n.startswith("Contents/section") and n.endswith(".xml")
IsSectionFile(n) ==
    StartsWith(n, <<67, 111, 110, 116, 101, 110, 116, 115, 47, 115, 101, 99, 116, 105, 111, 110>>) /\ EndsWith(n, <<46, 120, 109, 108>>)

\* "x" in names
InNames(names, n) == \E k \in 1..Len(names) : names[k] = n

\* bytes.decode("utf-8", errors="replace") of ASCII bytes and of bytes that
\* no UTF-8 sequence holds (0xF8..0xFF), each of which becomes U+FFFD
Utf8Decode(bytes) ==
    [k \in 1..Len(bytes) |->
        CASE bytes[k] < 128 -> bytes[k]
          [] bytes[k] >= 248 -> 65533]

\* zf.read(name): the last entry of that name; ok is FALSE when its CRC
\* does not match (zipfile.BadZipFile)
ZipRead(entries, n) ==
    LET e == entries[CHOOSE k \in 1..Len(entries) :
                        /\ entries[k].name = n
                        /\ \A j \in (k + 1)..Len(entries) : entries[j].name # n]
    IN  [ok |-> e.crc_ok, content |-> e.content]

\* valid = has_mimetype and has_content_hpf and has_sections and no errors
VerdictIgnoringErrors(r) == r.has_mimetype /\ r.has_content_hpf /\ r.has_sections
Verdict(r) ==
    r.has_mimetype /\ r.has_content_hpf /\ r.has_sections /\ Len(r.errors) = 0

\* except zipfile.BadZipFile: the error is recorded and the report returned
BadZipPropagates(r) == [report |-> r, raised |-> "BadZipFile"]
BadZipCaught(r) ==
    [report |-> [r EXCEPT !.errors = Append(@, "bad_zip")], raised |-> ""]

\* The body of the with block for an archive that opened.
ValidateArchive(entries) ==
    LET names == [k \in 1..Len(entries) |-> entries[k].name]
        section_files == SelectSeq(names, IsSectionFile)
        r0 == [EmptyReport EXCEPT
                 !.file_count = Len(names),
                 !.has_mimetype = InNames(names, NAME_MIMETYPE),
                 !.has_manifest = InNames(names, NAME_MANIFEST),
                 !.has_content_hpf = InNames(names, NAME_CONTENT_HPF),
                 !.has_header = InNames(names, NAME_HEADER),
                 !.has_sections = Len(section_files) > 0,
                 !.section_count = Len(section_files)]
    IN  IF r0.has_mimetype /\ ~ZipRead(entries, NAME_MIMETYPE).ok
        THEN BadZipCaught(r0)
        ELSE
        LET e1 == IF r0.has_mimetype /\
                     Strip(Utf8Decode(ZipRead(entries, NAME_MIMETYPE).content))
                         # EXPECTED_MIMETYPE
                  THEN <<"wrong_mimetype">> ELSE <<>>
            e2 == IF ~r0.has_mimetype THEN <<"mimetype_missing">> ELSE <<>>
            e3 == IF ~r0.has_content_hpf THEN <<"content_hpf_missing">> ELSE <<>>
            e4 == IF ~r0.has_sections THEN <<"sections_missing">> ELSE <<>>
            r1 == [r0 EXCEPT !.errors = e1 \o e2 \o e3 \o e4]
        IN  [report |-> [r1 EXCEPT !.valid = Verdict(r1)], raised |-> ""]

\* validate_hwpx(path) for the file f at the path: the report returned and
\* the exception, if any, that leaves the function.
validate_hwpx(f) ==
    IF f.kind = "absent"
    THEN [report |-> [EmptyReport EXCEPT !.errors = <<"file_missing">>], raised |-> ""]
    ELSE IF f.kind = "bytes"
    THEN BadZipCaught(EmptyReport)
    ELSE ValidateArchive(f.entries)

\* ---------------------------------------------------- the builder's actions
MaxLines == 2
MaxBuilderSections == 2

\* add_section(title, content)
\* The caller holds a builder: "built" when its last call was a build that
\* returned and no section was added since.
BuilderHeld == pc \in {"builder", "built"}

\* add_section putting the block in front of the list.
AddSectionInFront(title, content) ==
    /\ BuilderHeld
    /\ Len(builder.sections) < MaxBuilderSections
    /\ builder' = [builder EXCEPT !.sections =
                     <<SectionBlock(title, content, "bodyText", <<>>)>> \o @]
    /\ pc' = "builder"
    /\ UNCHANGED <<recVars, textVars, parseVars, raised, profile, disk, report, edit, access, run>>
AddSection(title, content) ==
    /\ BuilderHeld
    /\ Len(builder.sections) < MaxBuilderSections
    /\ builder' = [builder EXCEPT !.sections =
                     Append(@, SectionBlock(title, content, "bodyText", <<>>))]
    /\ pc' = "builder"
    /\ UNCHANGED <<recVars, textVars, parseVars, raised, profile, disk, report, edit, access, run>>

\* build(output_path): hwpx_mcp_server is not importable, so the package is
\* written by _build_legacy.
Build ==
    /\ pc = "builder"
    /\ disk' = [disk EXCEPT ![OUT_PATH] = ZipArchive(BuildEntries(builder))]
    /\ pc' = "validate"
    /\ UNCHANGED <<recVars, textVars, parseVars, raised, profile, builder, report, edit, access, run>>

\* build(output_path) returning to a caller that keeps the builder.
BuildTo(output_path) ==
    /\ BuilderHeld
    /\ disk' = [disk EXCEPT ![output_path] = ZipArchive(BuildEntries(builder))]
    /\ pc' = "built"
    /\ UNCHANGED <<recVars, textVars, parseVars, raised, profile, builder, report, edit, access, run>>

\* build(output_path) when a write fails with OSError.  In steps 1 to 3 the
\* failing write is in the temporary directory and the output path is not
\* touched (written = -1).  In step 4 the archive is opened on the output
\* path itself (l.340) and the failure comes after `written` entries: the
\* with block closes the archive, leaving those entries, or the close fails
\* as well and leaves bytes that are no archive.
BuildFails(written, closes) ==
    /\ pc = "builder"
    /\ disk' = IF written < 0 THEN disk
               ELSE [disk EXCEPT ![OUT_PATH] =
                       IF closes THEN ZipArchive(SubSeq(BuildEntries(builder), 1, written))
                       ELSE BytesFile(<<80, 75, 3, 4>>)]
    /\ pc' = "raised"
    /\ raised' = "OSError"
    /\ UNCHANGED <<recVars, textVars, parseVars, profile, builder, report, edit, access, run>>

\* validate_hwpx(output_path)
Validate ==
    /\ pc = "validate"
    /\ LET v == validate_hwpx(disk[OUT_PATH])
       IN  /\ report' = v.report
           /\ raised' = v.raised
           /\ pc' = IF v.raised = "" THEN "validated" ELSE "raised"
    /\ UNCHANGED <<recVars, textVars, parseVars, profile, builder, disk, edit, access, run>>

\* ------------------------------------------------- inputs of the builder
\* A profile with Letter paper, its own margins, a font table and styles
\* that leave keys out.
LetterProfile ==
    [paperSize |-> [width |-> 2159, height |-> 2794],
     margins |-> [top |-> 254, bottom |-> 127, left |-> 191, header |-> 99],
     fonts |-> << [name |-> <<70, 49>>], [name |-> <<>>], [name |-> <<70, 50>>],
                  [name |-> <<70, 49>>] >>,
     characterStyles |->
        [bodyText |-> [font |-> <<70, 50>>, size |-> <<49, 49, 112, 116>>],
         sectionTitle |-> [font |-> <<70, 49, 32, 47, 32, 70, 51>>,
                           size |-> <<49, 52, 45, 49, 54, 112, 116>>, bold |-> TRUE,
                           color |-> [kind |-> "rgb", rgb |-> <<0, 0, 255>>]]],
     paragraphStyles |-> [default |-> [alignment |-> "left", lineSpacing |-> 180]]]

ProfilePool == {DefaultProfile, LetterProfile, <<>>}

\* Content lines: blank ones, plain and bullet text, table rows and
\* separator lines.
LinePool ==
    { <<>>, <<32, 32>>, <<32, 97, 32>>, <<45, 32, 98>>,
      <<124, 45, 45, 45, 124>>, <<32, 124, 32, 45, 9, 124>>, <<124, 97, 124, 98, 124>> }

\* The first section has every content of up to MaxLines lines; later ones
\* come from two fixed blocks.
SectionInputs(n) ==
    IF n = 0
    THEN {[title |-> <<84>>, content |-> JoinLines(ls)] : ls \in SeqsUpTo(LinePool, MaxLines)}
    ELSE { [title |-> <<85>>, content |-> <<99, 10, 124, 45, 124, 10, 100>>],
           [title |-> <<>>, content |-> <<>>] }

InitBuild ==
    /\ pc = "builder"
    /\ raised = ""
    /\ data = <<>>
    /\ src = [encoded |-> FALSE, recs |-> <<>>]
    /\ records = <<>>
    /\ i = 0
    /\ chars = <<>>
    /\ ParseIdle
    /\ profile = <<>>
    /\ builder \in {HwpxBuilder(StyleMirror(p)) : p \in ProfilePool}
    /\ disk \in {[p \in {IN_PATH, OUT_PATH} |-> IF p = OUT_PATH THEN f ELSE AbsentFile] :
                    f \in {AbsentFile, BytesFile(<<1, 2, 3>>)}}
    /\ report = <<>>
    /\ edit = <<>>
    /\ access = <<>>
    /\ run = <<>>

NextBuild ==
    \/ \E s \in SectionInputs(Len(builder.sections)) : AddSection(s.title, s.content)
    \/ Build
    \/ Validate

SpecBuild == InitBuild /\ [][NextBuild]_vars

\* Builds over the two fixed blocks in which a write may fail.
NextBuildFaults ==
    \/ \E s \in SectionInputs(1) : AddSection(s.title, s.content)
    \/ Build
    \/ \E written \in -1..(Len(BuildEntries(builder)) - 1), closes \in BOOLEAN :
            BuildFails(written, closes)
    \/ Validate

SpecBuildFaults == InitBuild /\ [][NextBuildFaults]_vars

\* ---------------------------------------------- claims about the builder
\* The package at the output path once build has returned.
Built == pc \in {"validate", "validated"}
Package == disk[OUT_PATH].entries
EntryNames == [k \in 1..Len(Package) |-> Package[k].name]
EntryOf(n) == Package[CHOOSE k \in 1..Len(Package) : Package[k].name = n]

\* C14: whatever sections were added, the ZIP holds exactly the entries
\* mimetype, META-INF/manifest.xml, Contents/content.hpf,
\* Contents/header.xml and Contents/section0.xml, each once; mimetype is
\* the first entry, stored uncompressed, with content "application/hwp+zip".
PackageLayout ==
    Built =>
        /\ disk[OUT_PATH].kind = "zip"
        /\ Len(Package) = 5
        /\ {EntryNames[k] : k \in 1..5} =
              {NAME_MIMETYPE, NAME_MANIFEST, NAME_CONTENT_HPF, NAME_HEADER, NAME_SECTION0}
        /\ Package[1].name = NAME_MIMETYPE
        /\ Package[1].compress_type = "ZIP_STORED"
        /\ Package[1].content = EXPECTED_MIMETYPE
        /\ \A k \in 2..5 : Package[k].name # NAME_MIMETYPE

\* A builder without sections, built over a file that was not a package.
PackageLayoutWitness ==
    /\ pc = "validate"
    /\ builder.sections = <<>>
    /\ disk[OUT_PATH].kind = "zip"
    /\ Len(Package) = 5
    /\ Package[5].name = NAME_MANIFEST
    /\ Package[5].compress_type = "ZIP_DEFLATED"

\* C15: for every sequence of add_section calls and every profile, the
\* file build produces is accepted by validate_hwpx: valid and the five
\* presence flags are true, section_count is 1 and errors is empty.
BuildValidates ==
    pc = "validated" =>
        /\ report.valid
        /\ report.has_mimetype /\ report.has_manifest /\ report.has_content_hpf
        /\ report.has_header /\ report.has_sections
        /\ report.section_count = 1
        /\ report.errors = <<>>

\* Two sections added under the Letter profile, built and validated.
BuildValidatesWitness ==
    /\ pc = "validated"
    /\ Len(builder.sections) = 2
    /\ builder.style.profile = LetterProfile
    /\ report.valid
    /\ report.file_count = 5

\* The lines of a content: the text between consecutive line feeds.
LineBreaks(content) == {k \in 1..Len(content) : content[k] = 10}
LineCount(content) == Cardinality(LineBreaks(content)) + 1
LineAt(content, n) ==
    LET brk == SortedSeq(LineBreaks(content))
        from == IF n = 1 THEN 1 ELSE brk[n - 1] + 1
        to == IF n > Len(brk) THEN Len(content) ELSE brk[n] - 1
    IN  SubSeq(content, from, to)

\* A line without its leading and trailing whitespace.
Trimmed(line) ==
    LET ink == {k \in 1..Len(line) : line[k] \notin WHITESPACE}
    IN  IF ink = {} THEN <<>>
        ELSE SubSeq(line, CHOOSE k \in ink : \A j \in ink : k <= j,
                          CHOOSE k \in ink : \A j \in ink : j <= k)

\* A separator line starts with "|" and holds only "|", "-" and white space.
SeparatorLine(line) ==
    /\ Trimmed(line) # <<>>
    /\ Trimmed(line)[1] = 124
    /\ \A k \in 1..Len(Trimmed(line)) : Trimmed(line)[k] \in {124, 45} \cup WHITESPACE

\* What the body of one added section is to be.
ExpectedBlock(section) ==
    LET kept == SelectSeq([n \in 1..LineCount(section.content) |-> LineAt(section.content, n)],
                          LAMBDA line : ~SeparatorLine(line))
    IN  << [ParaShapeId |-> 1,
            Run |-> IF section.title = <<>> THEN <<>>
                    ELSE <<[CharShapeId |-> 1, T |-> section.title]>>] >>
        \o [n \in 1..Len(kept) |->
              [ParaShapeId |-> 0,
               Run |-> IF Trimmed(kept[n]) = <<>> THEN <<>>
                       ELSE <<[CharShapeId |-> 0, T |-> Trimmed(kept[n])]>>]]

MmToUnitsRounded(t) ==
    CASE (t * HWPUNIT_PER_MM_X100) % 1000 # 500 ->
            (t * HWPUNIT_PER_MM_X100 + 500) \div 1000

\* C19: every page dimension and margin written to section0.xml is
\* round(mm * 283.46), the nearest integer, of the profile's value.
PageGeometryRounded ==
    Built =>
        LET page == EntryOf(NAME_SECTION0).content.PageDef
            st == builder.style
        IN  /\ page.Width = MmToUnitsRounded(get_paper_width_mm(st))
            /\ page.Height = MmToUnitsRounded(get_paper_height_mm(st))
            /\ page.Margin.Top = MmToUnitsRounded(get_margin_mm(st, "top"))
            /\ page.Margin.Bottom = MmToUnitsRounded(get_margin_mm(st, "bottom"))
            /\ page.Margin.Left = MmToUnitsRounded(get_margin_mm(st, "left"))
            /\ page.Margin.Right = MmToUnitsRounded(get_margin_mm(st, "right"))
            /\ page.Margin.Header = MmToUnitsRounded(get_margin_mm(st, "header"))
            /\ page.Margin.Footer = MmToUnitsRounded(get_margin_mm(st, "footer"))
            /\ page.Margin.Gutter = MmToUnitsRounded(get_margin_mm(st, "gutter"))

\* ------------------------------------------------ inputs of the validator
\* Entry names a package may hold: the five of a written package, a second
\* section, a name that starts like a section and does not end in ".xml",
\* and a file of another kind.
NAME_SECTION1 == <<67, 111, 110, 116, 101, 110, 116, 115, 47, 115, 101, 99, 116, 105, 111, 110, 49, 46, 120, 109, 108>>
NAME_SECTION_BAK == NAME_SECTION0 \o <<46, 98, 97, 107>>
NAME_PREVIEW == <<80, 114, 101, 118, 105, 101, 119, 47, 80, 114, 118, 46, 116, 120, 116>>
ValidateNames ==
    << NAME_MIMETYPE, NAME_MANIFEST, NAME_CONTENT_HPF, NAME_HEADER,
       NAME_SECTION0, NAME_SECTION1, NAME_SECTION_BAK, NAME_PREVIEW >>

\* Mimetype entries: the exact text, the text followed by a line feed, the
\* text inside white space, another type, nothing, a byte that is not
\* UTF-8 after the text, and entries whose stored CRC does not match.
MimetypeEntries ==
    {ZipEntry(NAME_MIMETYPE, "ZIP_STORED", c) :
        c \in {EXPECTED_MIMETYPE, EXPECTED_MIMETYPE \o <<10>>,
               <<32, 32>> \o EXPECTED_MIMETYPE \o <<9>>, MimetypeZip, <<>>,
               EXPECTED_MIMETYPE \o <<255>>}}
    \cup {[ZipEntry(NAME_MIMETYPE, "ZIP_STORED", c) EXCEPT !.crc_ok = FALSE] :
              c \in {EXPECTED_MIMETYPE, MimetypeZip}}

\* The archive holding the names picked, in the order of ValidateNames.
PickedEntries(picked, mt) ==
    LET idx == SortedSeq(picked)
    IN  [k \in 1..Len(idx) |->
            IF idx[k] = 1 THEN mt
            ELSE ZipEntry(ValidateNames[idx[k]], "ZIP_DEFLATED", <<>>)]

ValidateFiles ==
    {AbsentFile, BytesFile(<<>>), BytesFile(<<1, 2, 3>>), BytesFile(<<80, 75, 3, 4>>)}
    \cup {ZipArchive(PickedEntries(picked, mt)) :
             picked \in SUBSET (1..Len(ValidateNames)), mt \in MimetypeEntries}

InitValidate ==
    /\ pc = "validate"
    /\ raised = ""
    /\ data = <<>>
    /\ src = [encoded |-> FALSE, recs |-> <<>>]
    /\ records = <<>>
    /\ i = 0
    /\ chars = <<>>
    /\ ParseIdle
    /\ profile = <<>>
    /\ builder = <<>>
    /\ disk \in {[p \in {IN_PATH, OUT_PATH} |-> IF p = OUT_PATH THEN f ELSE AbsentFile] :
                    f \in ValidateFiles}
    /\ report = <<>>
    /\ edit = <<>>
    /\ access = <<>>
    /\ run = <<>>

NextValidate == Validate

SpecValidate == InitValidate /\ [][NextValidate]_vars

\* ---------------------------------------------- claims about the validator
\* What the package at the path holds.
Holds(n) == \E k \in 1..Len(Package) : Package[k].name = n
HoldsSection ==
    \E k \in 1..Len(Package) :
        LET n == Package[k].name
            head == <<67, 111, 110, 116, 101, 110, 116, 115, 47, 115, 101, 99, 116, 105, 111, 110>>
        IN  /\ Len(n) >= Len(head) + 4
            /\ SubSeq(n, 1, Len(head)) = head
            /\ SubSeq(n, Len(n) - 3, Len(n)) = <<46, 120, 109, 108>>
Recorded(e) == \E k \in 1..Len(report.errors) : report.errors[k] = e

\* C16: for a package that opens, valid is true exactly when the mimetype
\* entry, Contents/content.hpf and at least one Contents/section*.xml entry
\* are present and the errors list is empty; without Contents/content.hpf
\* valid is false and the content.hpf error is recorded; with a mimetype
\* entry whose trimmed content is not "application/hwp+zip" valid is false
\* and the mimetype error is recorded.
ValidatorVerdict ==
    (pc = "validated" /\ disk[OUT_PATH].kind = "zip") =>
        /\ report.valid <=>
              (Holds(NAME_MIMETYPE) /\ Holds(NAME_CONTENT_HPF) /\ HoldsSection
                  /\ report.errors = <<>>)
        /\ ~Holds(NAME_CONTENT_HPF) /\ (Holds(NAME_MIMETYPE) => EntryOf(NAME_MIMETYPE).crc_ok)
              => (~report.valid /\ Recorded("content_hpf_missing"))
        /\ (/\ Holds(NAME_MIMETYPE)
            /\ EntryOf(NAME_MIMETYPE).crc_ok
            /\ Trimmed(Utf8Decode(EntryOf(NAME_MIMETYPE).content)) # EXPECTED_MIMETYPE)
              => (~report.valid /\ Recorded("wrong_mimetype"))

\* A package with every part and the mimetype "application/zip": nothing is
\* missing, and the mimetype error alone makes it invalid.
ValidatorVerdictWitness ==
    /\ pc = "validated"
    /\ disk[OUT_PATH].kind = "zip"
    /\ Len(Package) = 5
    /\ Holds(NAME_CONTENT_HPF) /\ HoldsSection
    /\ Package[1].content = MimetypeZip
    /\ Package[1].crc_ok
    /\ ~report.valid
    /\ report.errors = <<"wrong_mimetype">>

\* C17: validate_hwpx returns a report for every path and raises nothing;
\* for a file that does not exist and for bytes that are not a ZIP the
\* report has valid false, errors not empty (the not-a-ZIP error for the
\* bytes), every presence flag false and both counts 0.
ValidatorNeverThrows ==
    /\ pc # "raised"
    /\ raised = ""
    /\ (pc = "validated" /\ disk[OUT_PATH].kind # "zip") =>
          /\ ~report.valid
          /\ report.errors # <<>>
          /\ disk[OUT_PATH].kind = "bytes" => Recorded("bad_zip")
          /\ ~report.has_mimetype /\ ~report.has_manifest /\ ~report.has_content_hpf
          /\ ~report.has_header /\ ~report.has_sections
          /\ report.section_count = 0
          /\ report.file_count = 0
    /\ pc = "validated" => DOMAIN report = DOMAIN EmptyReport

\* The bytes "PK\003\004" alone, which do not make a ZIP archive.
ValidatorNeverThrowsWitness ==
    /\ pc = "validated"
    /\ disk[OUT_PATH] = BytesFile(<<80, 75, 3, 4>>)
    /\ report.errors = <<"bad_zip">>
    /\ ~report.valid

\* ----------------------------------------------------------- edit_hwpx_text
\* zf.extractall(tmp_path): the files of the temporary tree by name, a later
\* entry of a name replacing an earlier one; ok is FALSE when an entry's
\* CRC does not match (zipfile.BadZipFile).
ExtractAll(entries) ==
    LET names == {entries[k].name : k \in 1..Len(entries)}
    IN  [ok |-> \A k \in 1..Len(entries) : entries[k].crc_ok,
         tree |-> [n \in names |-> ZipRead(entries, n).content]]

\* read_text(encoding="utf-8"): ok is FALSE for bytes that are not UTF-8
\* (UnicodeDecodeError); line ends are read as "\n".
ReadText(bytes) ==
    [ok |-> \A k \in 1..Len(bytes) : bytes[k] < 128,
     text |-> Replace(Replace(bytes, <<13, 10>>, <<10>>), <<13>>, <<10>>)]

\* The loop over replacements.items(), in the dictionary's order.
RECURSIVE ApplyReplacements(_, _)
ApplyReplacements(content, replacements) ==
    IF replacements = <<>> THEN [content |-> content, modified |-> FALSE]
    ELSE LET old_text == Head(replacements).old
             new_text == Head(replacements).new
             hit == Contains(content, old_text)
             rest == ApplyReplacements(IF hit THEN Replace(content, old_text, new_text)
                                       ELSE content, Tail(replacements))
         IN  [content |-> rest.content, modified |-> hit \/ rest.modified]

\* One file of the tree after the loop over tmp_path.rglob("*.xml"): written
\* back only when it is an XML file that decodes and a replacement hit.
EditedFile(name, bytes, replacements) ==
    IF ~EndsWith(name, <<46, 120, 109, 108>>) \/ ~ReadText(bytes).ok THEN bytes
    ELSE LET done == ApplyReplacements(ReadText(bytes).text, replacements)
         IN  IF done.modified THEN done.content ELSE bytes

\* The orders in which rglob("*") may yield the files of the tree.
Orders(names) ==
    {o \in [1..Cardinality(names) -> names] :
        \A a, b \in 1..Cardinality(names) : a # b => o[a] # o[b]}

\* The archive written from the tree in the order given: every file, the
\* mimetype included, with ZIP_DEFLATED.
Rezip(tree, order) ==
    ZipArchive([k \in 1..Len(order) |-> ZipEntry(order[k], "ZIP_DEFLATED", tree[order[k]])])

\* The exception raised for an input that zipfile rejects.
EditBadZipUntranslated == "BadZipFile"
EDIT_BAD_ZIP_ERROR == "ValueError"

\* edit_hwpx_text(IN_PATH, replacements, output_path)
EditHwpxText ==
    /\ pc = "edit"
    /\ LET f == disk[IN_PATH]
           output_path == IF edit.output_path = <<>> THEN IN_PATH ELSE edit.output_path[1]
       IN  IF f.kind = "absent"
           THEN /\ pc' = "raised"
                /\ raised' = "FileNotFoundError"
                /\ UNCHANGED <<disk, edit>>
           ELSE IF f.kind = "bytes" \/ ~ExtractAll(f.entries).ok
           THEN /\ pc' = "raised"
                /\ raised' = EDIT_BAD_ZIP_ERROR
                /\ UNCHANGED <<disk, edit>>
           ELSE LET tree == ExtractAll(f.entries).tree
                    edited == [n \in DOMAIN tree |-> EditedFile(n, tree[n], edit.replacements)]
                IN  /\ \E order \in Orders(DOMAIN tree) :
                          disk' = [disk EXCEPT ![output_path] = Rezip(edited, order)]
                    /\ edit' = [edit EXCEPT !.returned = <<output_path>>]
                    /\ pc' = "edited"
                    /\ UNCHANGED raised
    /\ UNCHANGED <<recVars, textVars, parseVars, profile, builder, report, access, run>>

\* ------------------------------------------------- inputs of edit_hwpx_text
\* Packages: one with a section to edit and a text file, one whose XML has
\* CR LF line ends and one that is not UTF-8, one with an entry whose CRC
\* does not match, one with the five entries in the order build writes.
EditArchives ==
    { ZipArchive(<< ZipEntry(NAME_MIMETYPE, "ZIP_STORED", EXPECTED_MIMETYPE),
                    ZipEntry(NAME_SECTION0, "ZIP_DEFLATED", <<97, 32, 98, 32, 97>>),
                    ZipEntry(NAME_PREVIEW, "ZIP_DEFLATED", <<97>>) >>),
      ZipArchive(<< ZipEntry(NAME_MIMETYPE, "ZIP_STORED", EXPECTED_MIMETYPE),
                    ZipEntry(NAME_HEADER, "ZIP_DEFLATED", <<97, 13, 10, 98>>),
                    ZipEntry(NAME_SECTION0, "ZIP_DEFLATED", <<97, 255>>) >>),
      ZipArchive(<< ZipEntry(NAME_MIMETYPE, "ZIP_STORED", EXPECTED_MIMETYPE),
                    [ZipEntry(NAME_SECTION0, "ZIP_DEFLATED", <<97>>) EXCEPT !.crc_ok = FALSE] >>),
      ZipArchive(<< ZipEntry(NAME_MIMETYPE, "ZIP_STORED", EXPECTED_MIMETYPE),
                    ZipEntry(NAME_CONTENT_HPF, "ZIP_DEFLATED", <<99>>),
                    ZipEntry(NAME_HEADER, "ZIP_DEFLATED", <<104>>),
                    ZipEntry(NAME_SECTION0, "ZIP_DEFLATED", <<97, 32, 98>>),
                    ZipEntry(NAME_MANIFEST, "ZIP_DEFLATED", <<109>>) >>),
      ZipArchive(<<>>) }

EditInputFiles ==
    {AbsentFile, BytesFile(<<>>), BytesFile(<<1, 2, 3>>)} \cup EditArchives

EditOutputFiles ==
    {AbsentFile, BytesFile(<<9>>),
     ZipArchive(<<ZipEntry(NAME_MIMETYPE, "ZIP_STORED", EXPECTED_MIMETYPE)>>)}

\* Replacement dictionaries: none, one entry, two entries where the second
\* finds what the first wrote, one that finds nothing.
EditReplacements ==
    { <<>>,
      <<[old |-> <<97>>, new |-> <<98>>]>>,
      <<[old |-> <<97>>, new |-> <<98>>], [old |-> <<98>>, new |-> <<>>]>>,
      <<[old |-> <<122, 122>>, new |-> <<97>>]>> }

InitEdit ==
    /\ pc = "edit"
    /\ raised = ""
    /\ data = <<>>
    /\ src = [encoded |-> FALSE, recs |-> <<>>]
    /\ records = <<>>
    /\ i = 0
    /\ chars = <<>>
    /\ ParseIdle
    /\ profile = <<>>
    /\ builder = <<>>
    /\ report = <<>>
    /\ disk \in {[p \in {IN_PATH, OUT_PATH} |-> IF p = IN_PATH THEN f ELSE g] :
                    f \in EditInputFiles, g \in EditOutputFiles}
    /\ access = <<>>
    /\ run = <<>>
    /\ edit \in {[output_path |-> o, replacements |-> rs, returned |-> <<>>] :
                    o \in {<<>>, <<OUT_PATH>>}, rs \in EditReplacements}

NextEdit == EditHwpxText

SpecEdit == InitEdit /\ [][NextEdit]_vars

\* C20: for an input path with no file edit_hwpx_text raises
\* FileNotFoundError, for an input that is not a valid ZIP it raises
\* ValueError, and in both cases no file changes: neither the output path
\* nor, when output_path is omitted, the input itself.
EditErrorOutcomes ==
    [][pc = "edit" =>
          /\ disk[IN_PATH].kind = "absent" =>
                pc' = "raised" /\ raised' = "FileNotFoundError" /\ disk' = disk
          /\ disk[IN_PATH].kind = "bytes" =>
                pc' = "raised" /\ raised' = "ValueError" /\ disk' = disk
          /\ (/\ disk[IN_PATH].kind = "zip"
              /\ \E k \in 1..Len(disk[IN_PATH].entries) : ~disk[IN_PATH].entries[k].crc_ok) =>
                pc' = "raised" /\ raised' = "ValueError" /\ disk' = disk]_vars

\* In-place mode on the bytes 1, 2, 3: ValueError, the bytes still there.
EditErrorOutcomesWitness ==
    /\ pc = "raised"
    /\ raised = "ValueError"
    /\ edit.output_path = <<>>
    /\ disk[IN_PATH] = BytesFile(<<1, 2, 3>>)

\* --------------------------------------------- claims about a failed build
\* C21: whatever step of build fails, the output path afterwards holds
\* either the content it had before or a complete package, never a
\* partially written one.
AtomicOutput ==
    [][pc = "builder" =>
          \/ disk'[OUT_PATH] = disk[OUT_PATH]
          \/ disk'[OUT_PATH] = ZipArchive(BuildEntries(builder))]_vars

\* ------------------------------------------------- the StyleMirror accessors
\* One accessor call on the builder's style: what it returns.
ACCESSORS ==
    {"get_char_style", "get_para_style", "get_font_name", "get_font_size_pt",
     "get_line_spacing", "get_alignment", "get_margin_mm", "get_paper_width_mm",
     "get_paper_height_mm", "get_font_list"}

AccessorValue(style, accessor, arg) ==
    CASE accessor = "get_char_style" -> get_char_style(style, arg)
      [] accessor = "get_para_style" -> get_para_style(style, arg)
      [] accessor = "get_font_name" -> get_font_name(style, arg)
      [] accessor = "get_font_size_pt" -> get_font_size_pt(style, arg)
      [] accessor = "get_line_spacing" -> get_line_spacing(style, arg)
      [] accessor = "get_alignment" -> get_alignment(style, arg)
      [] accessor = "get_margin_mm" -> get_margin_mm(style, arg)
      [] accessor = "get_paper_width_mm" -> get_paper_width_mm(style)
      [] accessor = "get_paper_height_mm" -> get_paper_height_mm(style)
      [] accessor = "get_font_list" -> get_font_list(style)

\* self.style.<accessor>(arg): the accessors only read the mirror.
Access(accessor, arg) ==
    /\ BuilderHeld
    /\ access' = [accessor |-> accessor, arg |-> arg,
                  value |-> AccessorValue(builder.style, accessor, arg)]
    /\ UNCHANGED <<pc, recVars, textVars, parseVars, raised, profile, builder, disk,
                   report, edit, run>>

\* A profile without a bodyText and without a default entry, with a font
\* value of two names, size ranges with and without a unit on the first
\* bound, and a size that is no number.
RangeProfile ==
    [characterStyles |->
        [tableHeader |-> [font |-> <<32, 65, 32, 47, 66, 47, 67>>,
                          size |-> <<57, 45, 49, 48, 46, 53, 112, 116>>],
         tableCell |-> [font |-> <<66>>, size |-> <<49, 50, 46, 53, 112, 116, 32, 45, 32, 49, 52, 112, 116>>],
         caption |-> [size |-> <<98, 105, 103>>]],
     paragraphStyles |-> [sectionTitle |-> [alignment |-> "center", lineSpacing |-> 130]]]

MirrorProfiles == ProfilePool \cup {RangeProfile}
STYLE_NAMES ==
    {"bodyText", "sectionTitle", "tableHeader", "tableCell", "caption", "default", "top", "gutter"}

InitMirror ==
    /\ pc = "builder"
    /\ raised = ""
    /\ data = <<>>
    /\ src = [encoded |-> FALSE, recs |-> <<>>]
    /\ records = <<>>
    /\ i = 0
    /\ chars = <<>>
    /\ ParseIdle
    /\ profile = <<>>
    /\ builder \in {HwpxBuilder(StyleMirror(p)) : p \in MirrorProfiles}
    /\ disk = [p \in {IN_PATH, OUT_PATH} |-> AbsentFile]
    /\ report = <<>>
    /\ edit = <<>>
    /\ access = <<>>
    /\ run = <<>>

NextMirror == \E accessor \in ACCESSORS, arg \in STYLE_NAMES : Access(accessor, arg)

SpecMirror == InitMirror /\ [][NextMirror]_vars

\* ------------------------------------------------ claims about StyleMirror
\* The entry of a dictionary under a key, {} when there is none.
Entry(dict, key) == IF key \in DOMAIN dict THEN dict[key] ELSE <<>>
CharEntry == IF access.arg \in DOMAIN builder.style.char_styles
             THEN builder.style.char_styles[access.arg]
             ELSE Entry(builder.style.char_styles, "bodyText")
\* The text before the first occurrence of a character, trimmed.
FirstPiece(t, ch) ==
    Trimmed(SubSeq(t, 1, (CHOOSE k \in 1..Len(t) :
                             t[k] = ch /\ \A j \in 1..(k - 1) : t[j] # ch) - 1))
\* A text of digits, with ".0" or ".5" or without, and "pt" after it or
\* not, read as hundredths.
WithoutPt(t) ==
    IF Len(t) >= 2 /\ SubSeq(t, Len(t) - 1, Len(t)) = <<112, 116>>
    THEN Trimmed(SubSeq(t, 1, Len(t) - 2)) ELSE t
IsNumeral(t) == ParseFloat(WithoutPt(t)).ok

\* C22: get_char_style returns the named entry when present and the
\* bodyText entry otherwise, get_para_style the named entry and the default
\* entry otherwise; get_font_name returns the trimmed first name of a font
\* value with "/", get_font_size_pt the first bound of a size value with "-".
AccessorFallback ==
    access # <<>> =>
        /\ access.accessor = "get_char_style" => access.value = CharEntry
        /\ access.accessor = "get_para_style" =>
              access.value = IF access.arg \in DOMAIN builder.style.para_styles
                             THEN builder.style.para_styles[access.arg]
                             ELSE Entry(builder.style.para_styles, "default")
        /\ (/\ access.accessor = "get_font_name"
            /\ "font" \in DOMAIN CharEntry
            /\ \E k \in 1..Len(CharEntry.font) : CharEntry.font[k] = 47)
              => access.value = FirstPiece(CharEntry.font, 47)
        /\ (/\ access.accessor = "get_font_size_pt"
            /\ "size" \in DOMAIN CharEntry
            /\ \E k \in 1..Len(CharEntry.size) : CharEntry.size[k] = 45
            /\ IsNumeral(FirstPiece(CharEntry.size, 45)))
              => access.value = ParseFloat(WithoutPt(FirstPiece(CharEntry.size, 45))).val

\* The size "14-16pt" of sectionTitle read as 14.0.
AccessorFallbackWitness ==
    /\ access # <<>>
    /\ builder.style.profile = LetterProfile
    /\ access.accessor = "get_font_size_pt"
    /\ access.arg = "sectionTitle"
    /\ CharEntry.size = <<49, 52, 45, 49, 54, 112, 116>>
    /\ access.value = 1400

\* ------------------------------------------- claims about the table pass
\* The records of the sections read, in processing order, and the TABLE
\* records among them.
AllBodyRecords == Flatten([k \in 1..Len(result.sections) |-> SectionRecords(k - 1)])
TableRecords == SelectSeq(AllBodyRecords, LAMBDA rec : rec.tag_id = 75)

\* C23: every TABLE record yields exactly one table of result.tables, in
\* TABLE-record order, with the row and column counts of its first 8 bytes.
TablePerTableRecord ==
    pc = "done" =>
        /\ Len(result.tables) = Len(TableRecords)
        /\ \A j \in 1..Len(result.tables) :
              Len(TableRecords[j].data) >= 8 =>
                  /\ result.tables[j].rows = UnpackH(TableRecords[j].data, 4)
                  /\ result.tables[j].cols = UnpackH(TableRecords[j].data, 6)

\* For a record list: the TABLE records that open a table, each with the
\* decoded text of every PARA_TEXT record up to the next TABLE record.
AccumulatedTables(recs) ==
    LET tpos == {p \in 1..Len(recs) : recs[p].tag_id = 75}
        rows(p) == IF Len(recs[p].data) >= 8 THEN UnpackH(recs[p].data, 4) ELSE 0
        cols(p) == IF Len(recs[p].data) >= 8 THEN UnpackH(recs[p].data, 6) ELSE 0
        upto(p) == IF \E q \in tpos : q > p
                   THEN (CHOOSE q \in tpos : q > p /\ \A x \in tpos : x > p => q <= x) - 1
                   ELSE Len(recs)
        texts(p) ==
            LET seg == SelectSeq(SubSeq(recs, p + 1, upto(p)), LAMBDA rec : rec.tag_id = 67)
            IN  [k \in 1..Len(seg) |-> VisibleFrom(Units(seg[k].data), 1)]
        open == SortedSeq({p \in tpos : rows(p) > 0 /\ cols(p) > 0})
    IN  [j \in 1..Len(open) |->
            [rows |-> rows(open[j]), cols |-> cols(open[j]), texts |-> texts(open[j])]]

\* C24: the k-th PARA_TEXT record following the TABLE record that opened a
\* table supplies the text of cell k, row-major, of the finalized grid.
CellPerParaText ==
    pc = "done" =>
        LET want == Flatten([k \in 1..Len(result.sections) |->
                               AccumulatedTables(SectionRecords(k - 1))])
        IN  /\ Len(result.tables) = Len(want)
            /\ \A j \in 1..Len(result.tables) :
                 \A r \in 1..result.tables[j].rows : \A c \in 1..result.tables[j].cols :
                    LET idx == (r - 1) * result.tables[j].cols + (c - 1)
                    IN  result.tables[j].cells[r][c] =
                          IF idx < Len(want[j].texts) THEN want[j].texts[idx + 1] ELSE <<>>

\* C25: the table at position i of result.tables has table_index i,
\* counted from 0, whatever sections the tables come from.
TableIndexMonotonic ==
    pc \in {"section", "done"} =>
        \A j \in 1..Len(result.tables) : result.tables[j].table_index = j - 1

\* Tables from two sections: the first section ends with its second table,
\* the next section's table carries on with index 2.
TableIndexMonotonicWitness ==
    /\ pc = "done"
    /\ Len(result.sections) >= 2
    /\ Len(SectionTables(0)) = 2
    /\ Len(result.tables) >= 3
    /\ result.tables[3].table_index = 2
    /\ Grid(result.tables[3]) = Grid(SectionTables(1)[1])

\* The four character styles of _write_header, in the order of their ids.
HEADER_CHAR_STYLES == <<"bodyText", "sectionTitle", "tableHeader", "tableCell">>

\* C26: in the generated header.xml every font name used by one of the four
\* character styles has a font face for each of the 7 script types, and
\* every FontRef of a character shape names, by Id and script type, a font
\* face whose Name is that style's get_font_name.
HeaderFontRefsResolve ==
    Built =>
        LET head == EntryOf(NAME_HEADER).content
            faces == {head.FontFaces[n] : n \in DOMAIN head.FontFaces}
        IN  \A c \in 1..Len(HEADER_CHAR_STYLES) :
                LET fname == get_font_name(builder.style, HEADER_CHAR_STYLES[c])
                IN  /\ \A k \in 1..7 :
                        \E f \in faces : f.Name = fname /\ f.Type = SCRIPT_TYPES[k]
                    /\ \A k \in 1..7 :
                        LET ref == head.CharShapes[c].FontRef[k]
                        IN  \E f \in faces :
                                f.Id = ref.Id /\ f.Type = ref.Type /\ f.Name = fname

\* The FACE_NAME records of the DocInfo stream, as parse_hwp obtains them.
FaceNameRecords ==
    SelectSeq(parse_records(decompress_stream(file.streams["DocInfo"],
                                              result.compressed).bytes).records,
              LAMBDA rec : rec.tag_id = HWPTAG_FACE_NAME)

\* C27: result.fonts has one entry per FACE_NAME record of DocInfo, the
\* k-th entry holding the name decoded from the k-th record, so that a
\* font id of a char shape selects in result.fonts the face the document
\* means.
FontTablePositions ==
    (pc \in {"section", "done"} /\ OleExists("DocInfo")) =>
        /\ Len(result.fonts) = Len(FaceNameRecords)
        /\ \A k \in 1..Len(result.fonts) :
                result.fonts[k].name = parse_face_name(FaceNameRecords[k].data)

\* The mandatory layout of a package: the five entries, each once, the
\* mimetype first, stored uncompressed, with the expected content.
MandatoryLayout(f) ==
    /\ f.kind = "zip"
    /\ Len(f.entries) = 5
    /\ {f.entries[k].name : k \in 1..5} =
          {NAME_MIMETYPE, NAME_MANIFEST, NAME_CONTENT_HPF, NAME_HEADER, NAME_SECTION0}
    /\ f.entries[1].name = NAME_MIMETYPE
    /\ f.entries[1].compress_type = "ZIP_STORED"
    /\ f.entries[1].content = EXPECTED_MIMETYPE

\* C28: the package edit_hwpx_text writes from a package of the mandatory
\* layout has the same entry names, its mimetype still first, stored
\* uncompressed and unchanged, and validate_hwpx finds it valid.
EditPreservesLayout ==
    [][(pc = "edit" /\ pc' = "edited" /\ MandatoryLayout(disk[IN_PATH])) =>
          LET before == disk[IN_PATH].entries
              after == disk'[edit'.returned[1]]
          IN  /\ after.kind = "zip"
              /\ {after.entries[k].name : k \in 1..Len(after.entries)} =
                    {before[k].name : k \in 1..Len(before)}
              /\ after.entries[1].name = NAME_MIMETYPE
              /\ after.entries[1].compress_type = "ZIP_STORED"
              /\ after.entries[1].content = before[1].content
              /\ validate_hwpx(after).report.valid]_vars

\* ------------------------------------------- a builder used for two builds
\* A caller that adds sections, reads the style and builds to either path,
\* in any order.
FRAME_PATHS == {IN_PATH, OUT_PATH}
FRAME_ARGS == {"sectionTitle"}

InitFrame ==
    /\ pc = "builder"
    /\ raised = ""
    /\ data = <<>>
    /\ src = [encoded |-> FALSE, recs |-> <<>>]
    /\ records = <<>>
    /\ i = 0
    /\ chars = <<>>
    /\ ParseIdle
    /\ profile = <<>>
    /\ builder \in {HwpxBuilder(StyleMirror(p)) : p \in ProfilePool}
    /\ disk \in {[p \in FRAME_PATHS |-> IF p = OUT_PATH THEN f ELSE AbsentFile] :
                    f \in {AbsentFile, BytesFile(<<1, 2, 3>>)}}
    /\ report = <<>>
    /\ edit = <<>>
    /\ access = <<>>
    /\ run = <<>>

NextFrame ==
    \/ \E s \in SectionInputs(1) : AddSection(s.title, s.content)
    \/ \E a \in ACCESSORS, arg \in FRAME_ARGS : Access(a, arg)
    \/ \E p \in FRAME_PATHS : BuildTo(p)

SpecFrame == InitFrame /\ [][NextFrame]_vars

\* The part of a package at name n.
PartOf(f, n) == f.entries[CHOOSE k \in 1..Len(f.entries) : f.entries[k].name = n].content

\* Two packages with the same entry names and the same content in each.
SamePackage(f, g) ==
    /\ f.kind = "zip" /\ g.kind = "zip"
    /\ Len(f.entries) = Len(g.entries)
    /\ \A k \in 1..Len(f.entries) :
          /\ f.entries[k].name = g.entries[k].name
          /\ f.entries[k].content = g.entries[k].content

\* The later package has the entries of the earlier one, the same content
\* outside the section body, and a body that is the earlier body followed
\* by the paragraphs of the sections from position n + 1 on.
ExtendsPackage(earlier, later, sections, n) ==
    LET was == PartOf(earlier, NAME_SECTION0).Paragraphs
        now == PartOf(later, NAME_SECTION0).Paragraphs
        added == SubSeq(sections, n + 1, Len(sections))
    IN  /\ Len(earlier.entries) = Len(later.entries)
        /\ \A k \in 1..Len(earlier.entries) :
              /\ earlier.entries[k].name = later.entries[k].name
              /\ earlier.entries[k].name # NAME_SECTION0 =>
                    earlier.entries[k].content = later.entries[k].content
        /\ PartOf(earlier, NAME_SECTION0).PageDef = PartOf(later, NAME_SECTION0).PageDef
        /\ was = Flatten([k \in 1..n |-> ContentParagraphs(sections[k])])
        /\ now = was \o Flatten([k \in 1..Len(added) |-> ContentParagraphs(added[k])])
        /\ Len(now) > Len(was)

\* C29: add_section appends one block to the section list and touches
\* nothing else; build and the accessors leave the section list and the
\* style as they were; a build with no add_section since the last build
\* writes a package with the names and contents of the last one; a build
\* after sections were added writes the body of every earlier package
\* followed by the added sections, and leaves the earlier package alone.
BuilderFrame ==
    [][/\ builder' # builder =>
            /\ Len(builder'.sections) = Len(builder.sections) + 1
            /\ SubSeq(builder'.sections, 1, Len(builder.sections)) = builder.sections
            /\ builder'.style = builder.style
            /\ builder'.font_list = builder.font_list
            /\ disk' = disk
       /\ (disk' # disk \/ access' # access) => builder' = builder
       /\ (pc = "built" /\ pc' = "built") =>
            \A p \in FRAME_PATHS :
                disk'[p] # disk[p] =>
                    \E q \in FRAME_PATHS \ {p} : SamePackage(disk[q], disk'[p])
       /\ (pc = "builder" /\ pc' = "built") =>
            \A p \in FRAME_PATHS :
                disk'[p] # disk[p] =>
                    \A q \in FRAME_PATHS \ {p} :
                        /\ disk'[q] = disk[q]
                        /\ disk[q].kind = "zip" =>
                              \E n \in 0..(Len(builder.sections) - 1) :
                                  ExtendsPackage(disk[q], disk'[p], builder.sections, n)]_vars

\* Two sections, the second one added between the build to the first path
\* and the build to the second, and the style read in between.
BuilderFrameWitness ==
    /\ pc = "built"
    /\ Len(builder.sections) = 2
    /\ access # <<>>
    /\ disk[IN_PATH].kind = "zip"
    /\ disk[OUT_PATH].kind = "zip"
    /\ ExtendsPackage(disk[IN_PATH], disk[OUT_PATH], builder.sections, 1)

\* ================================================================== run.py
\* ------------------------------------------------------------ run_pipeline
\* The result dictionary at the start of run_pipeline.  None is <<>>.
RunResult ==
    [success |-> FALSE,
     steps |-> <<>>,
     summary |-> [total_steps |-> 0, completed_steps |-> 0, failed_steps |-> <<>>,
                  missing_info_count |-> 0, section_count |-> 0,
                  overall_score |-> <<>>, hwpx_path |-> <<>>, html_path |-> <<>>],
     errors |-> <<>>]

\* result["summary"]["total_steps"] += 1
StepBegins(res) == [res EXCEPT !.summary.total_steps = @ + 1]

\* result["steps"][name] = entry; completed_steps += 1
StepCompleted(res, name, entry) ==
    [res EXCEPT !.steps = (name :> entry) @@ @,
                !.summary.completed_steps = @ + 1]

\* A failed step entered in steps and errors and left out of failed_steps.
StepFailedUnlisted(res, name, entry, errors) ==
    [res EXCEPT !.steps = (name :> entry) @@ @,
                !.errors = @ \o errors]
\* result["steps"][name] = entry; failed_steps.append(name); the errors
\* appended or extended
StepFailed(res, name, entry, errors) ==
    [res EXCEPT !.steps = (name :> entry) @@ @,
                !.summary.failed_steps = Append(@, name),
                !.errors = @ \o errors]

\* except Exception as e: {"success": False, "error": str(e)}
ExceptionEntry == [success |-> FALSE, error |-> "e"]

\* The files the steps write under project_dir, in the order of writing.
CONTEXT_JSON == "context.json"
MISSING_INFO_JSON == "missing_info.json"
STYLE_PROFILE_JSON == "style-profile.json"

\* What the step functions may return.  A list of errors is a sequence of
\* messages; a step that fails may report none.
ExtractReturns ==
    {[documents |-> 2, missing_info |-> m, style_profile_data |-> sp] :
        m \in {0, 3}, sp \in BOOLEAN}
MergeReturns ==
    {[success |-> TRUE, merged_fields |-> 2, errors |-> <<>>],
     [success |-> FALSE, merged_fields |-> 0, errors |-> <<"context.json">>],
     [success |-> FALSE, merged_fields |-> 0, errors |-> <<"company info">>]}
ErrorLists == {<<>>, <<"e1", "e2">>}
VisualizeReturns ==
    {[success |-> TRUE, charts |-> 4, errors |-> <<>>]}
        \cup {[success |-> FALSE, charts |-> 0, errors |-> es] : es \in ErrorLists}
ReviewReturns ==
    {[success |-> TRUE, overall_score |-> <<85>>, missing_sections |-> <<>>, errors |-> <<>>]}
        \cup {[success |-> FALSE, overall_score |-> <<0>>, missing_sections |-> <<>>,
               errors |-> es] : es \in ErrorLists}
AssembleReturns ==
    {[success |-> TRUE, section_count |-> 9, total_chars |-> 1200,
      hwpx_path |-> <<"plan.hwpx">>, html_path |-> <<"plan.html">>, errors |-> <<>>]}
        \cup {[success |-> FALSE, section_count |-> 0, total_chars |-> 0,
               hwpx_path |-> <<>>, html_path |-> <<>>, errors |-> es] : es \in ErrorLists}

\* Step 1: extract, unless skipped.  An exception may come from run_extract
\* or from one of the writes that follow it.
RunExtract ==
    /\ pc = "run_extract"
    /\ pc' = "run_merge"
    /\ IF run.args.skip_extract THEN UNCHANGED run
       ELSE LET res == StepBegins(run.result)
                called == Append(run.called, "extract")
            IN  \/ \E ret \in ExtractReturns :
                      run' = [run EXCEPT
                          !.called = called,
                          !.files = @ \cup {CONTEXT_JSON, MISSING_INFO_JSON}
                                      \cup (IF ret.style_profile_data
                                            THEN {STYLE_PROFILE_JSON} ELSE {}),
                          !.result =
                              [StepCompleted(res, "extract",
                                             [success |-> TRUE, documents |-> ret.documents,
                                              missing_info |-> ret.missing_info])
                                 EXCEPT !.summary.missing_info_count = ret.missing_info]]
                \/ \E written \in {{}, {CONTEXT_JSON}, {CONTEXT_JSON, MISSING_INFO_JSON}} :
                      run' = [run EXCEPT
                          !.called = called,
                          !.files = @ \cup written,
                          !.result = StepFailed(res, "extract", ExceptionEntry, <<"extract">>)]
    /\ UNCHANGED <<recVars, textVars, parseVars, raised, profile, builder, disk,
                   report, edit, access>>

\* Step 2: the merge of the company info, when a path is given.
RunMerge ==
    /\ pc = "run_merge"
    /\ pc' = "run_drafts"
    /\ IF ~run.args.company_info_path THEN UNCHANGED run
       ELSE LET res == StepBegins(run.result)
                called == Append(run.called, "merge")
            IN  \/ \E ret \in MergeReturns :
                      run' = [run EXCEPT
                          !.called = called,
                          !.files = IF ret.success
                                    THEN @ \cup {CONTEXT_JSON, MISSING_INFO_JSON} ELSE @,
                          !.result = IF ret.success
                                     THEN StepCompleted(res, "merge", ret)
                                     ELSE StepFailed(res, "merge", ret, ret.errors)]
                \/ \E written \in {{}, {CONTEXT_JSON}} :
                      run' = [run EXCEPT
                          !.called = called,
                          !.files = @ \cup written,
                          !.result = StepFailed(res, "merge", ExceptionEntry, <<"merge">>)]
    /\ UNCHANGED <<recVars, textVars, parseVars, raised, profile, builder, disk,
                   report, edit, access>>

\* if result["summary"]["completed_steps"] > 0: result["success"] = True
PartialSuccess(res) == res.summary.completed_steps > 0

\* has_drafts: without drafts the three later steps are entered as failed
\* and the result is returned.
CheckDrafts ==
    /\ pc = "run_drafts"
    /\ IF ~run.has_drafts
       THEN LET res == [run.result EXCEPT
                          !.steps = ("note" :> "no drafts") @@ @,
                          !.summary.total_steps = @ + 3,
                          !.summary.failed_steps = @ \o <<"visualize", "review", "assemble">>,
                          !.errors = Append(@, "no drafts")]
            IN  /\ run' = [run EXCEPT !.result =
                             IF PartialSuccess(res) THEN [res EXCEPT !.success = TRUE]
                             ELSE res]
                /\ pc' = "returned"
       ELSE /\ pc' = "run_visualize"
            /\ UNCHANGED run
    /\ UNCHANGED <<recVars, textVars, parseVars, raised, profile, builder, disk,
                   report, edit, access>>

\* Step 3: visualize, unless skipped.
RunVisualize ==
    /\ pc = "run_visualize"
    /\ pc' = "run_review"
    /\ IF run.args.skip_visualize THEN UNCHANGED run
       ELSE LET res == StepBegins(run.result)
                called == Append(run.called, "visualize")
            IN  \/ \E ret \in VisualizeReturns :
                      LET entry == [success |-> ret.success, charts |-> ret.charts]
                      IN  run' = [run EXCEPT
                              !.called = called,
                              !.result = IF ret.success
                                         THEN StepCompleted(res, "visualize", entry)
                                         ELSE StepFailed(res, "visualize", entry, ret.errors)]
                \/ run' = [run EXCEPT
                              !.called = called,
                              !.result = StepFailed(res, "visualize", ExceptionEntry,
                                                    <<"visualize">>)]
    /\ UNCHANGED <<recVars, textVars, parseVars, raised, profile, builder, disk,
                   report, edit, access>>

\* Step 4: review, unless skipped.
RunReview ==
    /\ pc = "run_review"
    /\ pc' = "run_assemble"
    /\ IF run.args.skip_review THEN UNCHANGED run
       ELSE LET res == StepBegins(run.result)
                called == Append(run.called, "review")
            IN  \/ \E ret \in ReviewReturns :
                      LET entry == [success |-> ret.success,
                                    overall_score |-> ret.overall_score,
                                    missing_sections |-> ret.missing_sections]
                      IN  run' = [run EXCEPT
                              !.called = called,
                              !.result =
                                 IF ret.success
                                 THEN [StepCompleted(res, "review", entry)
                                         EXCEPT !.summary.overall_score = ret.overall_score]
                                 ELSE StepFailed(res, "review", entry, ret.errors)]
                \/ run' = [run EXCEPT
                              !.called = called,
                              !.result = StepFailed(res, "review", ExceptionEntry, <<"review">>)]
    /\ UNCHANGED <<recVars, textVars, parseVars, raised, profile, builder, disk,
                   report, edit, access>>

\* result["success"] = len(result["summary"]["failed_steps"]) == 0
FinalSuccess(res) == [res EXCEPT !.success = (Len(res.summary.failed_steps) = 0)]

\* Step 5: assemble, with the style profile when its file exists, and the
\* final result.
RunAssemble ==
    /\ pc = "run_assemble"
    /\ pc' = "returned"
    /\ LET res == StepBegins(run.result)
           called == Append(run.called, "assemble")
       IN  \/ \E ret \in AssembleReturns :
                 LET entry == [success |-> ret.success, section_count |-> ret.section_count,
                               total_chars |-> ret.total_chars, hwpx_path |-> ret.hwpx_path,
                               html_path |-> ret.html_path]
                 IN  run' = [run EXCEPT
                         !.called = called,
                         !.style_given = STYLE_PROFILE_JSON \in run.files,
                         !.result =
                            FinalSuccess(
                              IF ret.success
                              THEN [StepCompleted(res, "assemble", entry)
                                      EXCEPT !.summary.section_count = ret.section_count,
                                             !.summary.hwpx_path = ret.hwpx_path,
                                             !.summary.html_path = ret.html_path]
                              ELSE StepFailed(res, "assemble", entry, ret.errors))]
           \/ run' = [run EXCEPT
                         !.called = called,
                         !.style_given = STYLE_PROFILE_JSON \in run.files,
                         !.result = FinalSuccess(StepFailed(res, "assemble", ExceptionEntry,
                                                            <<"assemble">>))]
    /\ UNCHANGED <<recVars, textVars, parseVars, raised, profile, builder, disk,
                   report, edit, access>>

\* ---------------------------------------------------- inputs of run_pipeline
\* Every combination of the arguments, a project with and without drafts,
\* empty or holding the files of an earlier run.
InitPipeline ==
    /\ pc = "run_extract"
    /\ raised = ""
    /\ data = <<>>
    /\ src = [encoded |-> FALSE, recs |-> <<>>]
    /\ records = <<>>
    /\ i = 0
    /\ chars = <<>>
    /\ ParseIdle
    /\ profile = <<>>
    /\ builder = <<>>
    /\ disk = <<>>
    /\ report = <<>>
    /\ edit = <<>>
    /\ access = <<>>
    /\ run \in {[args |-> [company_info_path |-> c, skip_extract |-> se,
                           skip_visualize |-> sv, skip_review |-> sr],
                 has_drafts |-> d, files |-> fs, called |-> <<>>, style_given |-> FALSE,
                 result |-> RunResult] :
                    c \in BOOLEAN, se \in BOOLEAN, sv \in BOOLEAN, sr \in BOOLEAN,
                    d \in BOOLEAN,
                    fs \in {{}, {CONTEXT_JSON, MISSING_INFO_JSON, STYLE_PROFILE_JSON}}}

NextPipeline ==
    \/ RunExtract
    \/ RunMerge
    \/ CheckDrafts
    \/ RunVisualize
    \/ RunReview
    \/ RunAssemble

SpecPipeline == InitPipeline /\ [][NextPipeline]_vars

\* ------------------------------------------------ claims about run_pipeline
Listed(seq, x) == \E k \in 1..Len(seq) : seq[k] = x
StepSucceeded(name) ==
    name \in DOMAIN run.result.steps /\ run.result.steps[name].success

\* C30: in the result run_pipeline returns, completed_steps plus the length
\* of failed_steps is total_steps and no name is twice in failed_steps;
\* with drafts, success is true exactly when failed_steps is empty; without
\* drafts, visualize, review and assemble are not called, all three are in
\* failed_steps, and success is true exactly when extract or merge
\* completed.
PipelineAccounting ==
    pc = "returned" =>
        LET s == run.result.summary
        IN  /\ s.completed_steps + Len(s.failed_steps) = s.total_steps
            /\ \A a, b \in 1..Len(s.failed_steps) :
                  a # b => s.failed_steps[a] # s.failed_steps[b]
            /\ run.has_drafts => (run.result.success <=> s.failed_steps = <<>>)
            /\ ~run.has_drafts =>
                  /\ \A n \in {"visualize", "review", "assemble"} :
                        ~Listed(run.called, n) /\ Listed(s.failed_steps, n)
                  /\ run.result.success <=>
                        (StepSucceeded("extract") \/ StepSucceeded("merge"))

\* No drafts, with both skip flags set: extract raised and the merge went
\* through, so the result is a success with four failed steps out of five.
PipelineAccountingWitness ==
    /\ pc = "returned"
    /\ ~run.has_drafts
    /\ run.args.skip_visualize /\ run.args.skip_review
    /\ run.called = <<"extract", "merge">>
    /\ run.result.success
    /\ run.result.summary.total_steps = 5
    /\ run.result.summary.completed_steps = 1
    /\ run.result.summary.failed_steps = <<"extract", "visualize", "review", "assemble">>

====
